---- MODULE Spec2Model ----
(***************************************************************************)
(* Model of kaura24/AI-reader.                                             *)
(*                                                                         *)
(* $lib/llm/openai: the process-wide caches openaiClient / availableModel, *)
(* model selection (getAvailableModel), the retry loop of                  *)
(* extractWithOpenAI and testOpenAIConnection, run by concurrent requests  *)
(* of one process (every await of the source is a point where another      *)
(* request may run), and parseExtractionResult.                            *)
(* $lib/extract: normalizeProductCode, normalizeBusinessRegNo, mock mode   *)
(* and validateExtractionResult.                                           *)
(* POST /process: the handler from the arrival of a request to its         *)
(* response.                                                               *)
(***************************************************************************)
EXTENDS Integers, Sequences, FiniteSets, TLC

\* ---------------------------------------------------------------- constants
PRIMARY_MODEL == "gpt-5-mini-2025-08-07"
FALLBACK_MODEL == "gpt-5-mini"
LEGACY_FALLBACK == "gpt-4o-mini"

MAX_RETRIES == 3
INITIAL_DELAY_MS == 1000

\* MIN_CONFIDENCE when the environment names none (0.6), in hundredths
DefaultMinConfidence == 60

\* Math.random() * 500 lies in [0, 500): the largest whole millisecond of jitter
MaxJitterMs == 499

\* ------------------------------------------------------------------- bounds
\* the jitter is sampled at JitterSteps + 1 evenly spread values of [0, 499]
JitterSteps == 2
\* clearOpenAICache is called at most MaxClears times in a run
MaxClears == 1
\* registration numbers hold at most MaxRegDigits digits
MaxRegDigits == 11
\* normalizeBusinessRegNo is applied at most MaxNormalizations times in a row
MaxNormalizations == 2
\* a result holds at most MaxItems items
MaxItems == 2
\* a productCode value lists at most MaxCodes elements
MaxCodes == 2
\* characters of a company name in an exported item
MaxNameLen == 3
\* loadEnvConfig is called at most MaxLoads times in a run
MaxLoads == 3
\* files are selected in the upload page at most MaxSelections times in a run
MaxSelections == 3

Jitters == { (MaxJitterMs * k) \div JitterSteps : k \in 0..JitterSteps }

\* the concurrent requests of the process
Reqs == {"r1", "r2"}

\* null / undefined / '' (every falsy string of the source)
NoModel == "null"
\* a model outside the priority list, as an OPENAI_MODEL override may name
CustomModel == "gpt-4o"

modelPriority == <<PRIMARY_MODEL, FALLBACK_MODEL, LEGACY_FALLBACK>>
PriorityModels == { modelPriority[i] : i \in 1..Len(modelPriority) }

\* config.OPENAI_MODEL as callers may pass it
ConfiguredModels == {NoModel, PRIMARY_MODEL, LEGACY_FALLBACK, CustomModel}

\* what client.models.list() answers: the ids of the catalog, or a failure
Listing(ids) == [ok |-> TRUE, ids |-> ids]
Unreachable == [ok |-> FALSE, ids |-> {}]
NoListing == [ok |-> FALSE, ids |-> {"not asked"}]
CatalogAnswers ==
    { Listing({PRIMARY_MODEL, FALLBACK_MODEL, LEGACY_FALLBACK}),
      Listing({FALLBACK_MODEL, LEGACY_FALLBACK, CustomModel}),
      Listing({LEGACY_FALLBACK}),
      Listing({CustomModel}),
      Unreachable }

\* ------------------------------------------------------------------- errors
\* An error is its class (OpenAI.APIError, a plain Error, a thrown non-Error),
\* its status (NoStatus: undefined), the substrings the source tests its
\* message for, and the provider call of the invocation that raised it.
NoStatus == 0
Markers == {"model", "not found", "does not exist", "fetch"}

Err(type, status, message) ==
    [type |-> type, status |-> status, message |-> message, at |-> 0]

NoError == Err("none", NoStatus, {})

\* the statuses an OpenAI.APIError may carry (NoStatus: a connection error)
Statuses == {400, 404, 429, 500, 503, NoStatus}

\* what client.responses.create may throw: an APIError of any status and
\* message, a plain Error, or a value that is no Error
ProviderErrors ==
    { Err("APIError", st, msg) : st \in Statuses, msg \in SUBSET Markers }
    \cup { Err("Error", NoStatus, msg) : msg \in SUBSET Markers }
    \cup { Err("NonError", NoStatus, msg) : msg \in {{}, {"fetch"}} }

\* what the body of the try block raises itself on a response it cannot use
NoTextError == Err("Error", NoStatus, {"No text output in response"})
ParseError == Err("Error", NoStatus, {"Failed to parse JSON from LLM response"})
MissingKeyError == Err("Error", NoStatus, {"OPENAI_API_KEY is not configured"})
ExhaustedError == Err("Error", NoStatus, {"OpenAI extraction failed after retries"})
ListError == Err("APIError", NoStatus, {"Connection error"})

\* the failures of one provider call followed by the parse of its output
CallFailures == ProviderErrors \cup {NoTextError, ParseError}

\* the failures drawn while two requests run concurrently: one of the
\* model-not-found class, one transient, one of neither class
ConcurrentFailures ==
    { Err("APIError", 404, {}), Err("APIError", 503, {}), ParseError }

VARIABLES
    config,          \* the EnvConfig the requests are given
    openaiClient,    \* TRUE iff the cached client is non-null
    availableModel,  \* the cached model selection, NoModel for null
    pc,              \* per request: where its async function is suspended
    kind,            \* per request: "extract", "test" or "none"
    attempt,         \* per request: loop variable of extractWithOpenAI
    modelToUse,      \* per request: local of extractWithOpenAI
    modelIds,        \* per request: local of getAvailableModel, the answer
                     \* of its models.list()
    lastError,       \* per request: local of extractWithOpenAI
    raised,          \* per request: the value the latest failed call threw
    delay,           \* per request: the backoff being slept, 0 when none
    result,          \* per request: what the invocation returned or threw
    calls,           \* per request: provider calls issued by the invocation
    downgrades,      \* per request: model downgrades done by the invocation
    catalogQueries,  \* catalog queries issued by getAvailableModel
    clears,          \* calls of clearOpenAICache
    regNo,           \* normalizeBusinessRegNo: the string it is applied to
    regNoIn,         \* the string before any application
    regNoRuns,       \* how many times it has been applied
    text,            \* parseExtractionResult: its argument
    payload,         \* the members of the JSON object the text spells
    parsed,          \* what parseExtractionResult returned or threw
    extraction,      \* the ExtractionResult given to validateExtractionResult
    extractionIn,    \* that result as it was before validation
    validation,      \* the outcome of validateExtractionResult
    request,         \* POST /process: the request received
    ppc,             \* where the handler is suspended
    productCodes,    \* local of the handler
    response,        \* the response of the handler
    emailCalls,      \* calls of sendResultEmail
    emailResult,     \* how the latest call of sendResultEmail settled
    exports,         \* calls of generateExcel
    csvItems,        \* generateCsv: its argument
    csv,             \* the text generateCsv returned, empty before the call
    env,             \* $env/dynamic/private as loadEnvConfig reads it
    cachedConfig,    \* module variable of the environment loader
    loadResult,      \* what the latest loadEnvConfig returned or threw
    loads,           \* calls of loadEnvConfig
    selectedFile,    \* upload page: the File selected, NoFile for null
    shrinkResult,    \* the File the displayed image was shrunk from
    isLoadingImage,  \* the page's loading flag
    cachedFileData,  \* the File whose bytes are held in memory
    reads,           \* the Files whose FileReader has not settled
    shrinks,         \* the Files whose shrinkImageFromBuffer is pending
    selections,      \* Files selected so far
    submitted,       \* the image and the file name of the latest form sent
    isProcessing,    \* the page's flag of a submit in flight
    errorMessage,    \* the message shown, "" when none
    successResult    \* TRUE iff a result is shown

openaiVars == <<config, openaiClient, availableModel, pc, kind, attempt,
                modelToUse, modelIds, lastError, raised, delay, result, calls,
                downgrades, catalogQueries, clears>>

regNoVars == <<regNo, regNoIn, regNoRuns>>
parseVars == <<text, payload, parsed>>
validationVars == <<extraction, extractionIn, validation>>
postVars == <<request, ppc, productCodes, response, emailCalls, emailResult,
              exports>>

csvVars == <<csvItems, csv>>
envVars == <<env, cachedConfig, loadResult, loads>>
pageVars == <<selectedFile, shrinkResult, isLoadingImage, cachedFileData, reads,
              shrinks, selections, submitted, isProcessing, errorMessage,
              successResult>>

\* what the OpenAI caller never touches
outsideOpenAI == <<regNoVars, parseVars, validationVars, postVars, csvVars,
                   envVars, pageVars>>

vars == <<openaiVars, outsideOpenAI>>

reqVars == <<pc, kind, attempt, modelToUse, modelIds, lastError, raised, delay,
             result, calls, downgrades>>

NoResult == [ok |-> FALSE, model |-> NoModel, error |-> NoError]

\* ---------------------------------------------------------- pure functions
\* a delay that doubles once too often
getBackoffDelayOffByOne(a, jitter) == INITIAL_DELAY_MS * (2 ^ (a + 1)) + jitter

getBackoffDelay(a, jitter) == INITIAL_DELAY_MS * (2 ^ a) + jitter

isRetryableError(error) ==
    IF error.type = "APIError"
    THEN error.status = 429 \/ (error.status >= 500 /\ error.status < 600)
    ELSE IF error.type = "Error" /\ "fetch" \in error.message
         THEN TRUE
         ELSE FALSE

isModelNotFoundError(error) ==
    IF error.type = "APIError"
    THEN \/ error.status = 404
         \/ ("model" \in error.message /\ "not found" \in error.message)
         \/ "does not exist" \in error.message
    ELSE FALSE

\* lastError = error instanceof Error ? error : new Error(String(error))
CaughtError(error) ==
    IF error.type = "NonError" THEN [error EXCEPT !.type = "Error"] ELSE error

\* a throw that drops the recorded error
ThrownErrorGeneric(last) == ExhaustedError

\* throw lastError || new Error('OpenAI extraction failed after retries')
ThrownError(last) == IF last = NoError THEN ExhaustedError ELSE last

\* the fallback chosen in the catch block
NextModel(m) == IF m = PRIMARY_MODEL THEN FALLBACK_MODEL ELSE LEGACY_FALLBACK

\* a loop that runs once more
LoopContinuesInclusive(a) == a <= MAX_RETRIES

\* the condition of the for loop
LoopContinues(a) == a < MAX_RETRIES

\* a loop that goes through the priority list from its end
LastAvailable(i, ids) ==
    IF LEGACY_FALLBACK \in ids THEN LEGACY_FALLBACK
    ELSE IF FALLBACK_MODEL \in ids THEN FALLBACK_MODEL
    ELSE IF PRIMARY_MODEL \in ids THEN PRIMARY_MODEL
    ELSE LEGACY_FALLBACK

\* the for loop over modelPriority, and the fallback after it
RECURSIVE FirstAvailable(_, _)
FirstAvailable(i, ids) ==
    IF i > Len(modelPriority) THEN LEGACY_FALLBACK
    ELSE IF modelPriority[i] \in ids THEN modelPriority[i]
    ELSE FirstAvailable(i + 1, ids)

\* getAvailableModel after models.list() settled with answer cat
CatalogChoice(cat) ==
    IF ~cat.ok THEN LEGACY_FALLBACK ELSE FirstAvailable(1, cat.ids)

\* an override that is tried before the cache is looked at
ConfiguredOrCached(cached, configuredModel) ==
    IF configuredModel # NoModel /\ configuredModel # PRIMARY_MODEL
    THEN configuredModel
    ELSE cached

\* getAvailableModel before its await: the cached model, else the override,
\* else NoModel when the catalog has to be asked
CachedOrConfigured(cached, configuredModel) ==
    IF cached # NoModel THEN cached
    ELSE IF configuredModel # NoModel /\ configuredModel # PRIMARY_MODEL
         THEN configuredModel
         ELSE NoModel

\* ------------------------------------------------------------------ strings
\* A string is the sequence of its characters.
Digits == {"0", "1", "2", "3", "4", "5", "6", "7", "8", "9"}
\* the characters \s matches and trim() removes
Whitespace == {" "}

IsDigit(c) == c \in Digits
IsSpace(c) == c \in Whitespace

RECURSIVE trimStart(_)
trimStart(s) ==
    IF s # <<>> /\ IsSpace(Head(s)) THEN trimStart(Tail(s)) ELSE s

RECURSIVE trimEnd(_)
trimEnd(s) ==
    IF s # <<>> /\ IsSpace(s[Len(s)])
    THEN trimEnd(SubSeq(s, 1, Len(s) - 1))
    ELSE s

trim(s) == trimEnd(trimStart(s))

\* every sequence over S of length at most n
RECURSIVE SeqsUpTo(_, _)
SeqsUpTo(S, n) ==
    IF n = 0 THEN {<<>>}
    ELSE LET shorter == SeqsUpTo(S, n - 1) IN
         shorter \cup { Append(s, x) : s \in shorter, x \in S }

\* ------------------------------------------- $lib/extract: registration numbers
\* the groups cut as 3-3-4
normalizeBusinessRegNoWrongGroups(businessRegNo) ==
    LET digits == SelectSeq(businessRegNo, IsDigit) IN
    IF Len(digits) = 10
    THEN SubSeq(digits, 1, 3) \o <<"-">> \o SubSeq(digits, 4, 6) \o <<"-">>
         \o SubSeq(digits, 7, Len(digits))
    ELSE trim(businessRegNo)

\* digits only; ten of them are set as 3-2-5, anything else is returned trimmed
normalizeBusinessRegNo(businessRegNo) ==
    LET digits == SelectSeq(businessRegNo, IsDigit) IN
    IF Len(digits) = 10
    THEN SubSeq(digits, 1, 3) \o <<"-">> \o SubSeq(digits, 4, 5) \o <<"-">>
         \o SubSeq(digits, 6, Len(digits))
    ELSE trim(businessRegNo)

\* the first n digits of 1234567890123...
DigitRun(n) ==
    [i \in 1..n |-> <<"1", "2", "3", "4", "5", "6", "7", "8", "9", "0">>[((i - 1) % 10) + 1]]

\* the registration numbers normalizeBusinessRegNo is applied to: up to
\* MaxRegDigits digits with up to two further characters (a hyphen, a space,
\* a letter) put anywhere
RegNoInputs ==
    LET InsertAt(s, p, c) == SubSeq(s, 1, p) \o <<c>> \o SubSeq(s, p + 1, Len(s))
        OneMore(strings) ==
            UNION { { InsertAt(s, p, c) : p \in 0..Len(s), c \in {"-", " ", "x"} } :
                    s \in strings }
        runs == { DigitRun(n) : n \in 0..MaxRegDigits }
        one == OneMore(runs)
    IN runs \cup one \cup OneMore(one)

RegNoIdle == regNo = <<>> /\ regNoIn = <<>> /\ regNoRuns = 0

\* --------------------------------------------------- $lib/llm/openai: parsing
\* A JSON value as the parser looks at it: its type and, for a number, its
\* value (for a string, a number naming the string).
J(t, v) == [t |-> t, v |-> v]
Absent == J("absent", 0)
Str(n) == J("string", n)
Num(n) == J("number", n)

\* the members of an object that names none of the fields the parser reads
NoPayload ==
    [items |-> [t |-> "absent", elems |-> <<>>], total_found |-> Absent,
     confidence |-> Absent, raw_text |-> Absent]
NotParsed ==
    [status |-> "none", items |-> <<>>, total_found |-> Absent,
     confidence |-> Absent, raw_text |-> Absent]
\* the Error of the catch block
Threw == [NotParsed EXCEPT !.status = "threw"]

\* The text of a response is a sequence of tokens: "fence" (the three
\* backquotes of a code fence), "json" (the tag), " " (a whitespace
\* character), the braces "{" and "}", "'" (the double quote of a string
\* literal), "x" (any other character), and "P": the text of the members
\* the object is made of (their value is the payload), which holds no fence
\* and only balanced braces.
Least(S) == CHOOSE k \in S : \A m \in S : k <= m
Greatest(S) == CHOOSE k \in S : \A m \in S : k >= m
Positions(s, token) == { k \in 1..Len(s) : s[k] = token }

\* jsonStr.match(/```(?:json)?\s*([\s\S]*?)```/): from the first fence that
\* has a later one, lazily up to the next fence; then jsonMatch[1].trim()
StripFence(jsonStr) ==
    LET fences == Positions(jsonStr, "fence") IN
    IF Cardinality(fences) < 2 THEN jsonStr
    ELSE LET i == Least(fences)
             j == Least(fences \ {i})
             from == IF jsonStr[i + 1] = "json" THEN i + 2 ELSE i + 1
         IN trim(SubSeq(jsonStr, from, j - 1))

\* jsonStr.match(/\{[\s\S]*\}/): from the first opening brace, greedily up to
\* the last closing brace
ExtractBraces(jsonStr) ==
    LET opens == Positions(jsonStr, "{") IN
    IF opens = {} THEN jsonStr
    ELSE LET a == Least(opens)
             later == { k \in Positions(jsonStr, "}") : k > a }
         IN IF later = {} THEN jsonStr ELSE SubSeq(jsonStr, a, Greatest(later))

\* JSON.parse on the inside of an object: whitespace, members and string
\* literals; a string literal may hold any token but a quote
RECURSIVE MembersOk(_, _, _)
MembersOk(s, i, inString) ==
    IF i > Len(s) THEN ~inString
    ELSE IF inString THEN MembersOk(s, i + 1, s[i] # "'")
    ELSE IF s[i] = "'" THEN MembersOk(s, i + 1, TRUE)
    ELSE IF s[i] \in {" ", "P"} THEN MembersOk(s, i + 1, FALSE)
    ELSE FALSE

RECURSIVE HasMembers(_, _, _)
HasMembers(s, i, inString) ==
    IF i > Len(s) THEN FALSE
    ELSE IF inString THEN HasMembers(s, i + 1, s[i] # "'")
    ELSE IF s[i] = "'" THEN HasMembers(s, i + 1, TRUE)
    ELSE s[i] = "P" \/ HasMembers(s, i + 1, FALSE)

Inside(s) == SubSeq(s, 2, Len(s) - 1)

\* whether JSON.parse accepts the text, as an object
IsJsonObject(s) ==
    LET t == trim(s) IN
    /\ Len(t) >= 2
    /\ t[1] = "{"
    /\ t[Len(t)] = "}"
    /\ MembersOk(Inside(t), 1, FALSE)

\* JSON.parse: the object the text spells, or a SyntaxError
JsonParse(s, value) ==
    IF ~IsJsonObject(s) THEN [ok |-> FALSE, value |-> NoPayload]
    ELSE IF HasMembers(Inside(trim(s)), 1, FALSE)
         THEN [ok |-> TRUE, value |-> value]
         ELSE [ok |-> TRUE, value |-> NoPayload]

\* the item the map callback returns: optional fields of another type are
\* dropped
ParsedItem(item) ==
    [product_code |-> item.product_code,
     business_reg_no |-> item.business_reg_no,
     company_name |-> IF item.company_name.t = "string" THEN item.company_name ELSE Absent,
     row_index |-> IF item.row_index.t = "number" THEN item.row_index ELSE Absent]

\* parsed.total_found ?? items.length
TotalFound(totalFound, items) ==
    IF totalFound.t \in {"absent", "null"} THEN Num(Len(items)) ELSE totalFound

\* the structural checks and the object returned, on what JSON.parse gave
CheckedResult(json) ==
    LET v == json.value IN
    IF ~json.ok THEN Threw
    ELSE IF v.items.t # "array" THEN Threw
    ELSE IF v.confidence.t # "number" THEN Threw
    ELSE IF \E i \in 1..Len(v.items.elems) :
               \/ v.items.elems[i].product_code.t # "string"
               \/ v.items.elems[i].business_reg_no.t # "string"
         THEN Threw
    ELSE LET items == [i \in 1..Len(v.items.elems) |-> ParsedItem(v.items.elems[i])] IN
         [status |-> "returned", items |-> items,
          total_found |-> TotalFound(v.total_found, items),
          confidence |-> v.confidence, raw_text |-> v.raw_text]

\* parseExtractionResult on a text whose members have the given value
parseExtractionResult(responseText, value) ==
    CheckedResult(JsonParse(ExtractBraces(StripFence(trim(responseText))), value))

\* ---- the texts and values the parser is given
JItem(productCode, businessRegNo, companyName, rowIndex) ==
    [product_code |-> productCode, business_reg_no |-> businessRegNo,
     company_name |-> companyName, row_index |-> rowIndex]

GoodItem == JItem(Str(1), Str(2), Str(3), Num(1))
JArray(elems) == [t |-> "array", elems |-> elems]

\* the objects JSON.parse may give: items that is no array, or an array of
\* up to MaxItems items that are well-formed, carry optional fields of a
\* wrong type, or lack a string product_code or business_reg_no; confidence
\* and total_found of every type
Payloads ==
    LET itemValues ==
            { GoodItem,
              JItem(Str(1), Str(2), Num(5), Str(4)),
              JItem(Absent, Str(2), Absent, Absent),
              JItem(Num(12345), Str(2), Str(3), Num(1)),
              JItem(Str(1), Absent, Str(3), Num(1)),
              JItem(Str(1), J("null", 0), Absent, Absent) }
        itemsValues ==
            { JArray(e) : e \in SeqsUpTo(itemValues, MaxItems) }
            \cup { [t |-> ty, elems |-> <<>>] :
                     ty \in {"absent", "null", "string", "object"} }
        confidenceValues ==
            { Absent, J("null", 0), Str(95), J("boolean", 1), Num(0), Num(30), Num(95) }
        totalFoundValues ==
            { Absent, J("null", 0), Str(2), J("boolean", 1), Num(0), Num(2), Num(7) }
    IN [items : itemsValues, total_found : totalFoundValues,
        confidence : confidenceValues, raw_text : {Absent, Str(9)}]

GoodPayload ==
    [items |-> JArray(<<GoodItem>>), total_found |-> Num(1),
     confidence |-> Num(95), raw_text |-> Absent]

\* the responses the parser is given: an object text (the members alone,
\* with whitespace, with string members that hold a letter, a fence, two
\* fences or a brace) between a lead and a trail, or a text with no object
ResponseTexts ==
    LET objects ==
            { <<"{", "P", "}">>,
              <<"{", " ", "P", " ", "}">>,
              <<"{", "}">>,
              <<"{", "P", "'", "x", "'", "}">>,
              <<"{", "P", "'", "fence", "'", "}">>,
              <<"{", "'", "fence", "x", "fence", "'", "P", "}">>,
              <<"{", "P", "'", "}", "'", "}">>,
              <<"{", "P", "'", "{", "'", "}">> }
        leads ==
            { <<>>, <<" ">>, <<"x", " ">>, <<"x", "{", "x", "}", " ">>,
              <<"fence", "json", " ">>, <<"fence", " ">>, <<"fence">>,
              <<"x", " ", "fence", "json", " ">> }
        trails ==
            { <<>>, <<" ">>, <<" ", "x">>, <<" ", "x", "}">>,
              <<" ", "{", "x", "}">>, <<" ", "fence">>, <<"fence">>,
              <<" ", "fence", " ", "x">> }
        objectless ==
            { <<>>, <<" ">>, <<"x">>, <<"{", "x">>, <<"{", "x", "}">>,
              <<"{", "P">>, <<"P", "}">>, <<"fence", "fence">>,
              <<"fence", "json", "fence">>, <<"{", "'", "P", "'", "}">> }
    IN { lead \o object \o trail :
           lead \in leads, object \in objects, trail \in trails }
       \cup objectless

\* the forms a response is given to the parser in: as it is, or wrapped in
\* a fenced code block without or with the json tag
Forms == {"plain", "fenced", "fenced json"}
Fenced(form, t) ==
    CASE form = "plain" -> t
      [] form = "fenced" -> <<"fence", " ">> \o t \o <<" ", "fence">>
      [] form = "fenced json" -> <<"fence", "json", " ">> \o t \o <<" ", "fence">>

ParseIdle ==
    text = <<>> /\ payload = NoPayload /\ parsed = [f \in Forms |-> NotParsed]

\* ------------------------------------------------- $lib/extract: validation
\* An ExtractionResult: hasItems is FALSE when items is null or undefined;
\* confidence and MIN_CONFIDENCE are held in hundredths.
NoExtraction ==
    [hasItems |-> FALSE, items |-> <<>>, total_found |-> 0, confidence |-> 0,
     provider |-> "none"]

Item(productCode, businessRegNo, companyName) ==
    [product_code |-> productCode, business_reg_no |-> businessRegNo,
     company_name |-> companyName]

\* the confidence test run before the emptiness test
ValidationErrorConfidenceFirst(extractionResult, cfg) ==
    IF extractionResult.confidence < cfg.MIN_CONFIDENCE THEN "low_confidence"
    ELSE IF ~extractionResult.hasItems \/ Len(extractionResult.items) = 0
         THEN "extraction_failed"
         ELSE "none"

\* a confidence equal to the minimum rejected as well
ValidationErrorInclusive(extractionResult, cfg) ==
    IF ~extractionResult.hasItems \/ Len(extractionResult.items) = 0
    THEN "extraction_failed"
    ELSE IF extractionResult.confidence <= cfg.MIN_CONFIDENCE
         THEN "low_confidence"
         ELSE "none"

\* the confidence never tested
ValidationErrorIgnoresConfidence(extractionResult, cfg) ==
    IF ~extractionResult.hasItems \/ Len(extractionResult.items) = 0
    THEN "extraction_failed"
    ELSE "none"

\* validateExtractionResult: the error_code it throws, "none" when it returns
ValidationError(extractionResult, cfg) ==
    IF ~extractionResult.hasItems \/ Len(extractionResult.items) = 0
    THEN "extraction_failed"
    ELSE IF extractionResult.confidence < cfg.MIN_CONFIDENCE
         THEN "low_confidence"
         ELSE "none"

\* validateExtractionResult: its loop over the items; an empty
\* business_reg_no is falsy and skipped
NormalizedItems(items) ==
    [i \in 1..Len(items) |->
        IF items[i].business_reg_no # <<>>
        THEN [items[i] EXCEPT !.business_reg_no = normalizeBusinessRegNo(@)]
        ELSE items[i]]

\* the items normalized before the checks, whether they pass or not
ValidatedEagerly(extractionResult, cfg) ==
    IF extractionResult.hasItems
    THEN [extractionResult EXCEPT !.items = NormalizedItems(@)]
    ELSE extractionResult

\* validateExtractionResult: the result object when it returns or throws
Validated(extractionResult, cfg) ==
    IF ValidationError(extractionResult, cfg) = "none"
    THEN [extractionResult EXCEPT !.items = NormalizedItems(@)]
    ELSE extractionResult

\* confidences around the minima a deployment may configure
Confidences == {0, 59, 60, 61, 95, 100}
MinConfidences == {0, DefaultMinConfidence, 100}

FirstCode == <<"1", "2", "3", "4", "5">>

Extraction(items, confidence) ==
    [hasItems |-> TRUE, items |-> items, total_found |-> Len(items),
     confidence |-> confidence, provider |-> "openai"]

\* the results validateExtractionResult is given: every list of up to
\* MaxItems sampled items, or no list, under every confidence; and every
\* registration number alone in a confident result
ValidationInputs ==
    LET RegNoSamples ==
            { <<>>, DigitRun(10),
              <<" ">> \o DigitRun(3) \o <<"-">> \o DigitRun(2) \o <<" ">>,
              <<" ">> \o DigitRun(10),
              DigitRun(9) \o <<"x">> }
    IN
    { Extraction(items, c) :
        items \in SeqsUpTo({ Item(FirstCode, b, "A") : b \in RegNoSamples }, MaxItems),
        c \in Confidences }
    \cup { [NoExtraction EXCEPT !.confidence = c, !.provider = "openai"] :
             c \in Confidences }
    \cup { Extraction(<<Item(FirstCode, b, "A")>>, 100) : b \in RegNoInputs }

ValidationIdle ==
    extraction = NoExtraction /\ extractionIn = NoExtraction /\ validation = "none"

\* ------------------------------------------------- $lib/extract: product codes
\* code.trim().replace(/\s+/g, '').replace(/[-_]/g, '')
normalizeProductCode(code) ==
    LET NotSpace(c) == ~IsSpace(c)
        NotHyphen(c) == c \notin {"-", "_"}
    IN SelectSeq(SelectSeq(trim(code), NotSpace), NotHyphen)

\* the pattern of PRODUCT_CODE_REGEX when the environment names none: ^\d{5}$
FiveDigits == "^[0-9]{5}$"

\* regex.test(code)
validateProductCode(code, regex) ==
    CASE regex = FiveDigits ->
        Len(code) = 5 /\ \A i \in 1..Len(code) : IsDigit(code[i])

\* String.prototype.split(',')
RECURSIVE split(_)
split(s) ==
    LET commas == Positions(s, ",") IN
    IF commas = {} THEN <<s>>
    ELSE LET k == Least(commas) IN
         <<SubSeq(s, 1, k - 1)>> \o split(SubSeq(s, k + 1, Len(s)))

\* Array.prototype.join(',')
RECURSIVE join(_)
join(parts) ==
    IF parts = <<>> THEN <<>>
    ELSE IF Len(parts) = 1 THEN parts[1]
    ELSE parts[1] \o <<",">> \o join(Tail(parts))

\* --------------------------------------------------- $lib/extract: mock mode
MockRegNoA == <<"1", "2", "3", "-", "4", "5", "-", "6", "7", "8", "9", "0">>
MockRegNoB == <<"9", "8", "7", "-", "6", "5", "-", "4", "3", "2", "1", "0">>
MockConfidence == 95

getMockResult(targetCode) ==
    LET firstTarget == trim(split(targetCode)[1]) IN
    [hasItems |-> TRUE,
     items |-> << Item(firstTarget, MockRegNoA, "A"), Item(firstTarget, MockRegNoB, "B") >>,
     total_found |-> 2, confidence |-> MockConfidence, provider |-> "mock"]

\* mock mode honoured only when no key is configured
UsesMockWithoutKey(cfg) == cfg.MOCK_LLM /\ ~cfg.OPENAI_API_KEY

\* extractBusinessRegNo: whether it answers without calling extractWithOpenAI
UsesMock(cfg) == cfg.MOCK_LLM

\* what extractBusinessRegNo makes of the provider's parsed answers
ProviderExtractions ==
    { Extraction(<<>>, 95),
      Extraction(<<Item(FirstCode, DigitRun(10), "A")>>, 95),
      Extraction(<<Item(FirstCode, DigitRun(10), "A")>>, 30),
      Extraction(<<Item(FirstCode, MockRegNoA, "A"),
                   Item(FirstCode, <<" ">> \o DigitRun(3) \o <<" ">>, "B")>>,
                 DefaultMinConfidence) }

\* ------------------------------------------------------------ POST /process
MAX_PAYLOAD_SIZE == 4500000
allowedTypes == {"image/jpeg", "image/png", "image/webp", "image/gif"}

\* a field of the form: absent, a string, or a File of a size and type
NoField == [t |-> "absent", v |-> <<>>, size |-> 0, type |-> ""]
StringField(v) == [t |-> "string", v |-> v, size |-> 0, type |-> ""]
FileField(size, type) == [t |-> "file", v |-> <<>>, size |-> size, type |-> type]

Multipart == "multipart/form-data; boundary=x"

\* a request: its content-type header, whether its body parses as a form,
\* and the two fields of the form. The elements of a productCode value are
\* empty after normalization, valid after normalization, or of a wrong format
Requests ==
    LET CodeElements ==
            { <<>>, <<" ">>, <<"-", "_">>,
              FirstCode, <<" ", "1", "2", "-", "3", "4", "5", " ">>,
              <<"1", "2", "3", "4">>, <<"1", "2", "3", "4", "x">>,
              <<"1", "2", "3", "4", "5", "6">> }
        ProductCodeFields ==
            { StringField(join(elements)) :
                elements \in SeqsUpTo(CodeElements, MaxCodes) \ {<<>>} }
            \cup { NoField, FileField(1000, "image/png") }
        ImageFields ==
            { FileField(size, type) :
                size \in {1000, MAX_PAYLOAD_SIZE, MAX_PAYLOAD_SIZE + 1},
                type \in {"image/jpeg", "image/gif", "application/pdf", ""} }
            \cup { NoField, StringField(<<"x">>) }
        ContentTypes == {Multipart, "application/json", ""}
    IN [contentType : ContentTypes, formOk : BOOLEAN,
        productCode : ProductCodeFields, image : ImageFields]

NoRequest ==
    [contentType |-> "", formOk |-> FALSE, productCode |-> NoField, image |-> NoField]
NoResponse ==
    [status |-> 0, ok |-> FALSE, error_code |-> "", emailed |-> FALSE, items |-> <<>>]

ErrorResponse(status, errorCode) ==
    [status |-> status, ok |-> FALSE, error_code |-> errorCode, emailed |-> FALSE,
     items |-> <<>>]
\* the success response with emailed true whatever the send reported
SuccessResponseAlwaysEmailed(items, emailed) ==
    [status |-> 200, ok |-> TRUE, error_code |-> "", emailed |-> TRUE,
     items |-> items]
SuccessResponse(items, emailed) ==
    [status |-> 200, ok |-> TRUE, error_code |-> "", emailed |-> emailed,
     items |-> items]

\* targetCodeRaw.split(',').map(normalizeProductCode).filter(c => c.length > 0)
CodesOf(targetCodeRaw) ==
    LET parts == split(targetCodeRaw)
        NonEmpty(c) == Len(c) > 0
    IN SelectSeq([i \in 1..Len(parts) |-> normalizeProductCode(parts[i])], NonEmpty)

\* the checks without the test of the file type
FormRejectionAnyFileType(req, cfg) ==
    IF ~req.formOk THEN ErrorResponse(400, "invalid_form_data")
    ELSE IF req.productCode.t # "string" \/ req.productCode.v = <<>>
    THEN ErrorResponse(400, "missing_product_code")
    ELSE LET codes == CodesOf(req.productCode.v)
             Invalid(c) == ~validateProductCode(c, cfg.PRODUCT_CODE_REGEX)
         IN
         IF Len(codes) = 0 THEN ErrorResponse(400, "invalid_product_code")
         ELSE IF Len(SelectSeq(codes, Invalid)) > 0
         THEN ErrorResponse(400, "invalid_product_code")
         ELSE IF req.image.t # "file" THEN ErrorResponse(400, "missing_file")
         ELSE IF req.image.size > MAX_PAYLOAD_SIZE
         THEN ErrorResponse(413, "payload_too_large")
         ELSE NoResponse

\* an empty productCode string told apart from a missing one
FormRejectionLenient(req, cfg) ==
    IF ~req.formOk THEN ErrorResponse(400, "invalid_form_data")
    ELSE IF req.productCode.t # "string"
    THEN ErrorResponse(400, "missing_product_code")
    ELSE LET codes == CodesOf(req.productCode.v)
             Invalid(c) == ~validateProductCode(c, cfg.PRODUCT_CODE_REGEX)
         IN
         IF Len(codes) = 0 THEN ErrorResponse(400, "invalid_product_code")
         ELSE IF Len(SelectSeq(codes, Invalid)) > 0
         THEN ErrorResponse(400, "invalid_product_code")
         ELSE IF req.image.t # "file" THEN ErrorResponse(400, "missing_file")
         ELSE IF req.image.size > MAX_PAYLOAD_SIZE
         THEN ErrorResponse(413, "payload_too_large")
         ELSE IF req.image.type \notin allowedTypes
         THEN ErrorResponse(400, "invalid_file_type")
         ELSE NoResponse

\* the checks with a list refused only when none of its codes is valid
FormRejectionPartial(req, cfg) ==
    IF ~req.formOk THEN ErrorResponse(400, "invalid_form_data")
    ELSE IF req.productCode.t # "string" \/ req.productCode.v = <<>>
    THEN ErrorResponse(400, "missing_product_code")
    ELSE LET codes == CodesOf(req.productCode.v)
             Invalid(c) == ~validateProductCode(c, cfg.PRODUCT_CODE_REGEX)
         IN
         IF Len(codes) = 0 THEN ErrorResponse(400, "invalid_product_code")
         ELSE IF Len(SelectSeq(codes, Invalid)) = Len(codes)
         THEN ErrorResponse(400, "invalid_product_code")
         ELSE IF req.image.t # "file" THEN ErrorResponse(400, "missing_file")
         ELSE IF req.image.size > MAX_PAYLOAD_SIZE
         THEN ErrorResponse(413, "payload_too_large")
         ELSE IF req.image.type \notin allowedTypes
         THEN ErrorResponse(400, "invalid_file_type")
         ELSE NoResponse

\* the checks with the file type tested before the file size
FormRejectionTypeFirst(req, cfg) ==
    IF ~req.formOk THEN ErrorResponse(400, "invalid_form_data")
    ELSE IF req.productCode.t # "string" \/ req.productCode.v = <<>>
    THEN ErrorResponse(400, "missing_product_code")
    ELSE LET codes == CodesOf(req.productCode.v)
             Invalid(c) == ~validateProductCode(c, cfg.PRODUCT_CODE_REGEX)
         IN
         IF Len(codes) = 0 THEN ErrorResponse(400, "invalid_product_code")
         ELSE IF Len(SelectSeq(codes, Invalid)) > 0
         THEN ErrorResponse(400, "invalid_product_code")
         ELSE IF req.image.t # "file" THEN ErrorResponse(400, "missing_file")
         ELSE IF req.image.type \notin allowedTypes
         THEN ErrorResponse(400, "invalid_file_type")
         ELSE IF req.image.size > MAX_PAYLOAD_SIZE
         THEN ErrorResponse(413, "payload_too_large")
         ELSE NoResponse

\* the checks of the handler from the parse of the form to the file type:
\* the response of the first that fails, NoResponse when all pass
FormRejection(req, cfg) ==
    IF ~req.formOk THEN ErrorResponse(400, "invalid_form_data")
    ELSE IF req.productCode.t # "string" \/ req.productCode.v = <<>>
    THEN ErrorResponse(400, "missing_product_code")
    ELSE LET codes == CodesOf(req.productCode.v)
             Invalid(c) == ~validateProductCode(c, cfg.PRODUCT_CODE_REGEX)
         IN
         IF Len(codes) = 0 THEN ErrorResponse(400, "invalid_product_code")
         ELSE IF Len(SelectSeq(codes, Invalid)) > 0
         THEN ErrorResponse(400, "invalid_product_code")
         ELSE IF req.image.t # "file" THEN ErrorResponse(400, "missing_file")
         ELSE IF req.image.size > MAX_PAYLOAD_SIZE
         THEN ErrorResponse(413, "payload_too_large")
         ELSE IF req.image.type \notin allowedTypes
         THEN ErrorResponse(400, "invalid_file_type")
         ELSE NoResponse

PostIdle ==
    /\ request = NoRequest
    /\ ppc = "idle"
    /\ productCodes = <<>>
    /\ response = NoResponse
    /\ emailCalls = 0
    /\ emailResult = "none"
    /\ exports = 0

\* -------------------------------------------------------- $lib/output: CSV
\* a text is a sequence of characters; "'" stands for the double quote,
\* "nl" for the line feed and "bom" for U+FEFF

\* String(n) of a natural number
RECURSIVE String(_)
String(n) ==
    LET digit(d) == <<"0", "1", "2", "3", "4", "5", "6", "7", "8", "9">>[d + 1] IN
    IF n < 10 THEN <<digit(n)>> ELSE String(n \div 10) \o <<digit(n % 10)>>

\* businessRegNo.replace(/\D/g, '')
extractDigitsOnly(businessRegNo) == SelectSeq(businessRegNo, IsDigit)

\* `="${productCode}"`
formatProductCodeAsText(productCode) == <<"=", "'">> \o productCode \o <<"'">>

\* a value quoted when it must be, its quotes left single
escapeCsvValueNoDoubling(value) ==
    IF \E i \in 1..Len(value) : value[i] \in {",", "'", "nl"}
    THEN <<"'">> \o value \o <<"'">>
    ELSE value

\* escapeCsvValue: a value holding a comma, a quote or a line feed is put in
\* quotes with its quotes doubled
escapeCsvValue(value) ==
    LET doubled[i \in 0..Len(value)] ==
            IF i = 0 THEN <<>>
            ELSE doubled[i - 1] \o
                 (IF value[i] = "'" THEN <<"'", "'">> ELSE <<value[i]>>)
    IN IF \E i \in 1..Len(value) : value[i] \in {",", "'", "nl"}
       THEN <<"'">> \o doubled[Len(value)] \o <<"'">>
       ELSE value

\* the rows numbered from 0
generateCsvFromZero(items) ==
    LET headers == << <<"No">>, <<"ProductCode">>, <<"Company">>, <<"RegNo">>,
                      <<"RegNoDigits">>, <<"ProcessedAt">> >>
        escaped(row) == join([k \in 1..Len(row) |-> escapeCsvValue(row[k])])
        dataLine(index) ==
            escaped(<< String(index),
                       formatProductCodeAsText(items[index + 1].product_code),
                       items[index + 1].company_name,
                       items[index + 1].business_reg_no,
                       extractDigitsOnly(items[index + 1].business_reg_no),
                       items[index + 1].processed_at >>)
        dataLines[n \in 0..Len(items)] ==
            IF n = 0 THEN <<>>
            ELSE IF n = 1 THEN dataLine(0)
            ELSE dataLines[n - 1] \o <<"nl">> \o dataLine(n - 1)
    IN <<"bom">> \o escaped(headers) \o <<"nl">> \o dataLines[Len(items)]

\* generateCsv: BOM, header line, and one line per item, joined by line
\* feeds; each header name is one character here
generateCsv(items) ==
    LET headers == << <<"No">>, <<"ProductCode">>, <<"Company">>, <<"RegNo">>,
                      <<"RegNoDigits">>, <<"ProcessedAt">> >>
        escaped(row) == join([k \in 1..Len(row) |-> escapeCsvValue(row[k])])
        dataLine(index) ==
            escaped(<< String(index + 1),
                       formatProductCodeAsText(items[index + 1].product_code),
                       items[index + 1].company_name,
                       items[index + 1].business_reg_no,
                       extractDigitsOnly(items[index + 1].business_reg_no),
                       items[index + 1].processed_at >>)
        dataLines[n \in 0..Len(items)] ==
            IF n = 0 THEN <<>>
            ELSE IF n = 1 THEN dataLine(0)
            ELSE dataLines[n - 1] \o <<"nl">> \o dataLine(n - 1)
    IN <<"bom">> \o escaped(headers) \o <<"nl">> \o dataLines[Len(items)]

\* the item lists generateCsv is given: every list of up to MaxItems sampled
\* items, and every company name of up to MaxNameLen characters alone
CsvInputs ==
    LET CsvDataItem(productCode, businessRegNo, companyName) ==
            [product_code |-> productCode, business_reg_no |-> businessRegNo,
             company_name |-> companyName, processed_at |-> <<"T">>]
        names == { <<>>, <<"a">>, <<"a", ",", " ", "b">>, <<"'", "a", "'">>,
                   <<"a", "nl", "b">> }
        regNos == { MockRegNoA, DigitRun(10), <<"1", ",", "2">> }
        chars == {"a", " ", ",", "'", "nl"}
    IN SeqsUpTo({ CsvDataItem(FirstCode, b, n) : b \in regNos, n \in names },
                MaxItems)
       \cup { <<CsvDataItem(FirstCode, MockRegNoB, n)>> :
                n \in SeqsUpTo(chars, MaxNameLen) }

CsvIdle == csvItems = <<>> /\ csv = <<>>

\* ------------------------------------------------------------ $lib/util/env
\* cachedConfig when null
NoConfig == [set |-> FALSE]

\* the values each variable of the environment may be given; "" is unset.
\* MIN_CONFIDENCE: a number in range, a text that is no number, a number
\* out of range. PRODUCT_CODE_REGEX: a pattern, and one that does not compile
EnvValues ==
    [MOCK_LLM |-> {"", "true"},
     OPENAI_API_KEY |-> {"", "sk-1"},
     RESEND_API_KEY |-> {"", "re_1"},
     PRODUCT_CODE_REGEX |-> {"", "^[0-9]{6}$", "("},
     MIN_CONFIDENCE |-> {"", "0.9", "abc", "1.5"}]

\* loadEnvConfig without the test of the cache
loadEnvConfigUncached(cached, e) ==
    LET mockLlm == e.MOCK_LLM = "true"
        missingVars == { key \in {"OPENAI_API_KEY", "RESEND_API_KEY"} :
                           ~(mockLlm /\ key = "OPENAI_API_KEY") /\ e[key] = "" }
        regexStr == IF e.PRODUCT_CODE_REGEX # "" THEN e.PRODUCT_CODE_REGEX
                    ELSE FiveDigits
        confidenceStr == IF e.MIN_CONFIDENCE # "" THEN e.MIN_CONFIDENCE ELSE "0.6"
        parseFloat == [nan |-> confidenceStr = "abc",
                       v |-> CASE confidenceStr = "0.6" -> DefaultMinConfidence
                               [] confidenceStr = "0.9" -> 90
                               [] confidenceStr = "1.5" -> 150
                               [] OTHER -> 0]
        Thrown(message) ==
            [ok |-> FALSE, config |-> NoConfig, error |-> message, cache |-> cached]
        loaded == [set |-> TRUE,
                   PRODUCT_CODE_REGEX |-> regexStr,
                   MIN_CONFIDENCE |-> parseFloat.v,
                   OPENAI_API_KEY |-> e.OPENAI_API_KEY,
                   RESEND_API_KEY |-> e.RESEND_API_KEY,
                   MOCK_LLM |-> mockLlm]
    IN IF missingVars # {}
       THEN Thrown("Missing required environment variables")
       ELSE IF regexStr = "("
       THEN Thrown("Invalid PRODUCT_CODE_REGEX")
       ELSE IF parseFloat.nan \/ parseFloat.v < 0 \/ parseFloat.v > 100
       THEN Thrown("Invalid MIN_CONFIDENCE")
       ELSE [ok |-> TRUE, config |-> loaded, error |-> "", cache |-> loaded]

\* loadEnvConfig: what it returns or throws, and cachedConfig after it.
\* Confidences are in hundredths; new RegExp throws on "(" only
loadEnvConfig(cached, e) ==
    LET mockLlm == e.MOCK_LLM = "true"
        missingVars == { key \in {"OPENAI_API_KEY", "RESEND_API_KEY"} :
                           ~(mockLlm /\ key = "OPENAI_API_KEY") /\ e[key] = "" }
        regexStr == IF e.PRODUCT_CODE_REGEX # "" THEN e.PRODUCT_CODE_REGEX
                    ELSE FiveDigits
        confidenceStr == IF e.MIN_CONFIDENCE # "" THEN e.MIN_CONFIDENCE ELSE "0.6"
        parseFloat == [nan |-> confidenceStr = "abc",
                       v |-> CASE confidenceStr = "0.6" -> DefaultMinConfidence
                               [] confidenceStr = "0.9" -> 90
                               [] confidenceStr = "1.5" -> 150
                               [] OTHER -> 0]
        Thrown(message) ==
            [ok |-> FALSE, config |-> NoConfig, error |-> message, cache |-> cached]
        loaded == [set |-> TRUE,
                   PRODUCT_CODE_REGEX |-> regexStr,
                   MIN_CONFIDENCE |-> parseFloat.v,
                   OPENAI_API_KEY |-> e.OPENAI_API_KEY,
                   RESEND_API_KEY |-> e.RESEND_API_KEY,
                   MOCK_LLM |-> mockLlm]
    IN IF cached # NoConfig
       THEN [ok |-> TRUE, config |-> cached, error |-> "", cache |-> cached]
       ELSE IF missingVars # {}
       THEN Thrown("Missing required environment variables")
       ELSE IF regexStr = "("
       THEN Thrown("Invalid PRODUCT_CODE_REGEX")
       ELSE IF parseFloat.nan \/ parseFloat.v < 0 \/ parseFloat.v > 100
       THEN Thrown("Invalid MIN_CONFIDENCE")
       ELSE [ok |-> TRUE, config |-> loaded, error |-> "", cache |-> loaded]

EnvIdle ==
    /\ env = NoConfig
    /\ cachedConfig = NoConfig
    /\ loadResult = [ok |-> FALSE, config |-> NoConfig, error |-> ""]
    /\ loads = 0

\* ------------------------------------------------------------- upload page
\* a File is told from the others by the rank of its selection; null is
\* NoFile. supported is the answer of isSupportedImageType for it
NoFile == [id |-> 0, supported |-> FALSE]

PageIdle ==
    /\ selectedFile = NoFile
    /\ shrinkResult = NoFile
    /\ isLoadingImage = FALSE
    /\ cachedFileData = NoFile
    /\ reads = {}
    /\ shrinks = {}
    /\ selections = 0
    /\ submitted = <<NoFile, NoFile>>
    /\ isProcessing = FALSE
    /\ errorMessage = ""
    /\ successResult = FALSE

\* ---------------------------------------------------------------- initial
\* the EnvConfig of a process that calls OpenAI
OpenAIConfigs ==
    [OPENAI_API_KEY : BOOLEAN, OPENAI_MODEL : ConfiguredModels,
     MOCK_LLM : {FALSE}, MIN_CONFIDENCE : {DefaultMinConfidence},
     PRODUCT_CODE_REGEX : {FiveDigits}]

\* the EnvConfig of a deployment that sets nothing but its keys
DefaultConfig ==
    [OPENAI_API_KEY |-> TRUE, OPENAI_MODEL |-> NoModel, MOCK_LLM |-> FALSE,
     MIN_CONFIDENCE |-> DefaultMinConfidence, PRODUCT_CODE_REGEX |-> FiveDigits]

\* no request has entered the OpenAI caller
OpenAIIdle ==
    /\ openaiClient = FALSE
    /\ availableModel = NoModel
    /\ pc = [r \in Reqs |-> "idle"]
    /\ kind = [r \in Reqs |-> "none"]
    /\ attempt = [r \in Reqs |-> 0]
    /\ modelToUse = [r \in Reqs |-> NoModel]
    /\ modelIds = [r \in Reqs |-> NoListing]
    /\ lastError = [r \in Reqs |-> NoError]
    /\ raised = [r \in Reqs |-> NoError]
    /\ delay = [r \in Reqs |-> 0]
    /\ result = [r \in Reqs |-> NoResult]
    /\ calls = [r \in Reqs |-> 0]
    /\ downgrades = [r \in Reqs |-> 0]
    /\ catalogQueries = 0
    /\ clears = 0

\* nothing outside the OpenAI caller has run
OutsideIdle ==
    RegNoIdle /\ ParseIdle /\ ValidationIdle /\ PostIdle /\ CsvIdle /\ EnvIdle /\ PageIdle

Init ==
    /\ config \in OpenAIConfigs
    /\ OpenAIIdle
    /\ OutsideIdle

\* ---------------------------------------------------------------- actions
\* extractWithOpenAI up to its first suspension: the key check, the client,
\* getAvailableModel up to models.list(), else on to the first provider call
StartExtract(r) ==
    /\ pc[r] = "idle"
    /\ UNCHANGED outsideOpenAI
    /\ kind' = [kind EXCEPT ![r] = "extract"]
    /\ UNCHANGED <<config, attempt, modelIds, lastError, raised, delay,
                   downgrades, clears>>
    /\ IF ~config.OPENAI_API_KEY
       THEN /\ pc' = [pc EXCEPT ![r] = "failed"]
            /\ result' = [result EXCEPT ![r] =
                            [ok |-> FALSE, model |-> NoModel, error |-> MissingKeyError]]
            /\ UNCHANGED <<openaiClient, availableModel, modelToUse, calls,
                           catalogQueries>>
       ELSE /\ openaiClient' = TRUE
            /\ result' = result
            /\ LET m == CachedOrConfigured(availableModel, config.OPENAI_MODEL) IN
               IF m # NoModel
               THEN /\ availableModel' = m
                    /\ modelToUse' = [modelToUse EXCEPT ![r] = m]
                    /\ pc' = [pc EXCEPT ![r] = "calling"]
                    /\ calls' = [calls EXCEPT ![r] = 1]
                    /\ UNCHANGED catalogQueries
               ELSE /\ pc' = [pc EXCEPT ![r] = "listing"]
                    /\ catalogQueries' = catalogQueries + 1
                    /\ UNCHANGED <<availableModel, modelToUse, calls>>

\* testOpenAIConnection up to its own models.list()
StartTest(r) ==
    /\ pc[r] = "idle"
    /\ UNCHANGED outsideOpenAI
    /\ kind' = [kind EXCEPT ![r] = "test"]
    /\ UNCHANGED <<config, availableModel, attempt, modelToUse, modelIds,
                   lastError, raised, delay, calls, downgrades, catalogQueries,
                   clears>>
    /\ IF ~config.OPENAI_API_KEY
       THEN /\ pc' = [pc EXCEPT ![r] = "done"]
            /\ result' = [result EXCEPT ![r] =
                            [ok |-> FALSE, model |-> NoModel, error |-> MissingKeyError]]
            /\ UNCHANGED openaiClient
       ELSE /\ openaiClient' = TRUE
            /\ pc' = [pc EXCEPT ![r] = "testListing"]
            /\ result' = result

\* testOpenAIConnection: its models.list() settles, then getAvailableModel
\* runs up to its own models.list()
TestListReturn(r) ==
    /\ pc[r] = "testListing"
    /\ UNCHANGED outsideOpenAI
    /\ UNCHANGED <<config, openaiClient, kind, attempt, modelToUse, modelIds,
                   lastError, raised, delay, calls, downgrades, clears>>
    /\ \E listed \in BOOLEAN :
       IF ~listed
       THEN /\ pc' = [pc EXCEPT ![r] = "done"]
            /\ result' = [result EXCEPT ![r] =
                            [ok |-> FALSE, model |-> NoModel, error |-> ListError]]
            /\ UNCHANGED <<availableModel, catalogQueries>>
       ELSE LET m == CachedOrConfigured(availableModel, config.OPENAI_MODEL) IN
            IF m # NoModel
            THEN /\ availableModel' = m
                 /\ pc' = [pc EXCEPT ![r] = "done"]
                 /\ result' = [result EXCEPT ![r] =
                                 [ok |-> TRUE, model |-> m, error |-> NoError]]
                 /\ UNCHANGED catalogQueries
            ELSE /\ pc' = [pc EXCEPT ![r] = "listing"]
                 /\ catalogQueries' = catalogQueries + 1
                 /\ UNCHANGED <<availableModel, result>>

\* getAvailableModel: models.list() settles; the choice is cached and returned
\* to extractWithOpenAI (which issues its first provider call) or to
\* testOpenAIConnection (which returns)
CatalogReturn(r) ==
    /\ pc[r] = "listing"
    /\ UNCHANGED outsideOpenAI
    /\ UNCHANGED <<config, openaiClient, kind, attempt, lastError, raised,
                   delay, downgrades, catalogQueries, clears>>
    /\ \E answer \in CatalogAnswers :
       LET m == CatalogChoice(answer) IN
       /\ modelIds' = [modelIds EXCEPT ![r] = answer]
       /\ availableModel' = m
       /\ IF kind[r] = "extract"
          THEN /\ modelToUse' = [modelToUse EXCEPT ![r] = m]
               /\ pc' = [pc EXCEPT ![r] = "calling"]
               /\ calls' = [calls EXCEPT ![r] = 1]
               /\ result' = result
          ELSE /\ pc' = [pc EXCEPT ![r] = "done"]
               /\ result' = [result EXCEPT ![r] =
                               [ok |-> TRUE, model |-> m, error |-> NoError]]
               /\ UNCHANGED <<modelToUse, calls>>

\* the for statement's attempt++ and test, then the next provider call or
\* the throw after the loop
NextIteration(r, last) ==
    /\ attempt' = [attempt EXCEPT ![r] = attempt[r] + 1]
    /\ IF LoopContinues(attempt[r] + 1)
       THEN /\ pc' = [pc EXCEPT ![r] = "calling"]
            /\ calls' = [calls EXCEPT ![r] = calls[r] + 1]
            /\ result' = result
       ELSE /\ pc' = [pc EXCEPT ![r] = "failed"]
            /\ calls' = calls
            /\ result' = [result EXCEPT ![r] =
                            [ok |-> FALSE, model |-> NoModel,
                             error |-> ThrownError(last)]]

\* the provider call settles with a usable response: extractWithOpenAI returns
ProviderSuccess(r) ==
    /\ pc[r] = "calling"
    /\ UNCHANGED outsideOpenAI
    /\ pc' = [pc EXCEPT ![r] = "done"]
    /\ result' = [result EXCEPT ![r] =
                    [ok |-> TRUE, model |-> modelToUse[r], error |-> NoError]]
    /\ UNCHANGED <<config, openaiClient, availableModel, kind, attempt,
                   modelToUse, modelIds, lastError, raised, delay, calls,
                   downgrades, catalogQueries, clears>>

\* the provider call, or the reading of its response, throws: the catch block
ProviderFailure(r, failures) ==
    /\ pc[r] = "calling"
    /\ UNCHANGED outsideOpenAI
    /\ UNCHANGED <<config, openaiClient, kind, modelIds, catalogQueries, clears>>
    /\ \E failure \in failures, jitter \in Jitters :
         LET error == [failure EXCEPT !.at = calls[r]]
             last == CaughtError(error)
         IN
         /\ raised' = [raised EXCEPT ![r] = error]
         /\ lastError' = [lastError EXCEPT ![r] = last]
         /\ IF isModelNotFoundError(error) /\ modelToUse[r] # LEGACY_FALLBACK
            THEN /\ modelToUse' = [modelToUse EXCEPT ![r] = NextModel(modelToUse[r])]
                 /\ availableModel' = NextModel(modelToUse[r])
                 /\ downgrades' = [downgrades EXCEPT ![r] = downgrades[r] + 1]
                 /\ delay' = delay
                 /\ NextIteration(r, last)
            ELSE IF isRetryableError(error) /\ attempt[r] < MAX_RETRIES - 1
            THEN /\ delay' = [delay EXCEPT ![r] = getBackoffDelay(attempt[r], jitter)]
                 /\ pc' = [pc EXCEPT ![r] = "waiting"]
                 /\ UNCHANGED <<availableModel, modelToUse, attempt, calls,
                                result, downgrades>>
            ELSE /\ NextIteration(r, last)
                 /\ UNCHANGED <<availableModel, modelToUse, delay, downgrades>>

\* the backoff timer fires: continue, on to the next iteration
BackoffElapsed(r) ==
    /\ pc[r] = "waiting"
    /\ UNCHANGED outsideOpenAI
    /\ delay' = [delay EXCEPT ![r] = 0]
    /\ NextIteration(r, lastError[r])
    /\ UNCHANGED <<config, openaiClient, availableModel, kind, modelToUse,
                   modelIds, lastError, raised, downgrades, catalogQueries,
                   clears>>

clearOpenAICache ==
    /\ clears < MaxClears
    /\ UNCHANGED outsideOpenAI
    /\ clears' = clears + 1
    /\ openaiClient' = FALSE
    /\ availableModel' = NoModel
    /\ UNCHANGED <<config, reqVars, catalogQueries>>

\* one invocation of extractWithOpenAI, over every failure a call may raise
Next ==
    \/ StartExtract("r1")
    \/ CatalogReturn("r1")
    \/ ProviderSuccess("r1")
    \/ ProviderFailure("r1", CallFailures)
    \/ BackoffElapsed("r1")

Spec == Init /\ [][Next]_vars

\* concurrent invocations of extractWithOpenAI and testOpenAIConnection
NextConc ==
    \/ \E r \in Reqs : StartExtract(r)
    \/ \E r \in Reqs : StartTest(r)
    \/ \E r \in Reqs : TestListReturn(r)
    \/ \E r \in Reqs : CatalogReturn(r)
    \/ \E r \in Reqs : ProviderSuccess(r)
    \/ \E r \in Reqs : ProviderFailure(r, ConcurrentFailures)
    \/ \E r \in Reqs : BackoffElapsed(r)
    \/ clearOpenAICache

SpecConc == Init /\ [][NextConc]_vars

\* ------------------------------------------- normalizeBusinessRegNo, applied
NormalizeRegNo ==
    /\ regNoRuns < MaxNormalizations
    /\ regNo' = normalizeBusinessRegNo(regNo)
    /\ regNoRuns' = regNoRuns + 1
    /\ UNCHANGED <<regNoIn, openaiVars, parseVars, validationVars, postVars,
                   csvVars, envVars, pageVars>>

InitRegNo ==
    /\ regNoIn \in RegNoInputs
    /\ regNo = regNoIn
    /\ regNoRuns = 0
    /\ config = DefaultConfig
    /\ OpenAIIdle /\ ParseIdle /\ ValidationIdle /\ PostIdle /\ CsvIdle /\ EnvIdle /\ PageIdle

SpecRegNo == InitRegNo /\ [][NormalizeRegNo]_vars

\* ----------------------------------------- validateExtractionResult, applied
ValidateExtraction ==
    /\ validation = "pending"
    /\ validation' = LET e == ValidationError(extraction, config) IN
                     IF e = "none" THEN "passed" ELSE e
    /\ extraction' = Validated(extraction, config)
    /\ UNCHANGED <<extractionIn, openaiVars, regNoVars, parseVars, postVars,
                   csvVars, envVars, pageVars>>

InitValidation ==
    /\ extraction \in ValidationInputs
    /\ extractionIn = extraction
    /\ validation = "pending"
    /\ config \in { [DefaultConfig EXCEPT !.MIN_CONFIDENCE = m] : m \in MinConfidences }
    /\ OpenAIIdle /\ RegNoIdle /\ ParseIdle /\ PostIdle /\ CsvIdle /\ EnvIdle /\ PageIdle

SpecValidation == InitValidation /\ [][ValidateExtraction]_vars

\* ------------------------------------------- parseExtractionResult, applied
\* the parser is given the response in one of its forms
Parse(form) ==
    /\ parsed[form].status = "none"
    /\ parsed' = [parsed EXCEPT
                    ![form] = parseExtractionResult(Fenced(form, text), payload)]
    /\ UNCHANGED <<text, payload, openaiVars, regNoVars, validationVars, postVars,
                   csvVars, envVars, pageVars>>

\* every response text around a well-formed payload, and every payload in
\* the plainest object text
InitParse ==
    /\ \/ text \in ResponseTexts /\ payload = GoodPayload
       \/ text = <<"{", "P", "}">> /\ payload \in Payloads
    /\ parsed = [f \in Forms |-> NotParsed]
    /\ config = DefaultConfig
    /\ OpenAIIdle /\ RegNoIdle /\ ValidationIdle /\ PostIdle /\ CsvIdle /\ EnvIdle /\ PageIdle

NextParse == \E form \in Forms : Parse(form)

SpecParse == InitParse /\ [][NextParse]_vars

\* ------------------------------------------------------- POST /process, run
\* One request, handled from its arrival to its response; the model call of
\* the handler is the invocation "r1" of extractWithOpenAI.
Respond(r) == response' = r /\ ppc' = "responded"

\* loadEnvConfig and the content-type check, up to the await of formData()
PostReceive ==
    /\ ppc = "received"
    /\ \E loaded \in BOOLEAN :
         IF ~loaded THEN Respond(ErrorResponse(500, "configuration_error"))
         ELSE IF request.contentType # Multipart
         THEN Respond(ErrorResponse(400, "invalid_content_type"))
         ELSE ppc' = "form" /\ response' = response
    /\ UNCHANGED <<request, productCodes, emailCalls, emailResult, exports, openaiVars, csvVars, envVars, pageVars, regNoVars,
                   parseVars, validationVars>>

\* formData() settles; the product-code and file checks, up to the await of
\* file.arrayBuffer()
PostFormParsed ==
    /\ ppc = "form"
    /\ LET rejection == FormRejection(request, config) IN
       IF rejection # NoResponse
       THEN Respond(rejection) /\ productCodes' = productCodes
       ELSE /\ ppc' = "buffer"
            /\ productCodes' = CodesOf(request.productCode.v)
            /\ response' = response
    /\ UNCHANGED <<request, emailCalls, emailResult, exports, openaiVars, csvVars, envVars, pageVars, regNoVars, parseVars,
                   validationVars>>

\* arrayBuffer() settles; extractBusinessRegNo answers from getMockResult or
\* goes on to extractWithOpenAI
PostBufferRead ==
    /\ ppc = "buffer"
    /\ \E read \in BOOLEAN :
         IF ~read
         THEN Respond(ErrorResponse(500, "internal_error")) /\ UNCHANGED validationVars
         ELSE IF UsesMock(config)
         THEN /\ extraction' = getMockResult(join(productCodes))
              /\ extractionIn' = extraction'
              /\ validation' = "pending"
              /\ ppc' = "extracted"
              /\ response' = response
         ELSE /\ ppc' = "extracting"
              /\ response' = response
              /\ UNCHANGED validationVars
    /\ UNCHANGED <<request, productCodes, emailCalls, emailResult, exports, openaiVars, csvVars, envVars, pageVars, regNoVars,
                   parseVars>>

\* extractWithOpenAI has returned or thrown
PostExtractSettled ==
    /\ ppc = "extracting"
    /\ pc["r1"] \in {"done", "failed"}
    /\ IF pc["r1"] = "failed"
       THEN Respond(ErrorResponse(422, "extraction_error")) /\ UNCHANGED validationVars
       ELSE \E answer \in ProviderExtractions :
              /\ extraction' = answer
              /\ extractionIn' = answer
              /\ validation' = "pending"
              /\ ppc' = "extracted"
              /\ response' = response
    /\ UNCHANGED <<request, productCodes, emailCalls, emailResult, exports, openaiVars, csvVars, envVars, pageVars, regNoVars,
                   parseVars>>

\* validateExtractionResult, the export, and the call of sendResultEmail
PostValidate ==
    /\ ppc = "extracted"
    /\ LET e == ValidationError(extraction, config) IN
       IF e # "none"
       THEN /\ Respond(ErrorResponse(422, e))
            /\ validation' = e
            /\ UNCHANGED <<extraction, emailCalls, exports>>
       ELSE /\ extraction' = Validated(extraction, config)
            /\ validation' = "passed"
            /\ exports' = exports + 1
            /\ emailCalls' = emailCalls + 1
            /\ ppc' = "emailing"
            /\ response' = response
    /\ UNCHANGED <<request, productCodes, extractionIn, emailResult, openaiVars, csvVars, envVars, pageVars,
                   regNoVars, parseVars>>

\* sendResultEmail reports success, reports a failure, or throws
PostEmailSettled ==
    /\ ppc = "emailing"
    /\ \E outcome \in {"sent", "not sent", "threw"} :
         /\ emailResult' = outcome
         /\ Respond(SuccessResponse(extraction.items, outcome = "sent"))
    /\ UNCHANGED <<request, productCodes, emailCalls, exports, openaiVars, csvVars, envVars, pageVars,
                   regNoVars, parseVars, validationVars>>

\* the configurations are those loadEnvConfig returns: the key may be
\* missing in mock mode only
InitPost ==
    /\ request \in Requests
    /\ ppc = "received"
    /\ productCodes = <<>>
    /\ response = NoResponse
    /\ emailCalls = 0
    /\ emailResult = "none"
    /\ exports = 0
    /\ config \in
          { [DefaultConfig EXCEPT !.MOCK_LLM = mock, !.OPENAI_API_KEY = key] :
              mock \in BOOLEAN, key \in BOOLEAN }
          \ { [DefaultConfig EXCEPT !.OPENAI_API_KEY = FALSE] }
    /\ OpenAIIdle /\ RegNoIdle /\ ParseIdle /\ ValidationIdle /\ CsvIdle /\ EnvIdle /\ PageIdle

NextPost ==
    \/ PostReceive
    \/ PostFormParsed
    \/ PostBufferRead
    \/ ppc = "extracting" /\ StartExtract("r1")
    \/ CatalogReturn("r1")
    \/ ProviderSuccess("r1")
    \/ ProviderFailure("r1", ConcurrentFailures)
    \/ BackoffElapsed("r1")
    \/ PostExtractSettled
    \/ PostValidate
    \/ PostEmailSettled

SpecPost == InitPost /\ [][NextPost]_vars


\* ------------------------------------------------------ generateCsv, applied
GenerateCsv ==
    /\ csv = <<>>
    /\ csv' = generateCsv(csvItems)
    /\ UNCHANGED <<csvItems, openaiVars, regNoVars, parseVars, validationVars,
                   postVars, envVars, pageVars>>

InitCsv ==
    /\ csvItems \in CsvInputs
    /\ csv = <<>>
    /\ config = DefaultConfig
    /\ OpenAIIdle /\ RegNoIdle /\ ParseIdle /\ ValidationIdle /\ PostIdle
    /\ EnvIdle /\ PageIdle

SpecCsv == InitCsv /\ [][GenerateCsv]_vars

\* ------------------------------------------------- the environment loader
\* a call of loadEnvConfig
LoadEnvConfig ==
    /\ loads < MaxLoads
    /\ LET r == loadEnvConfig(cachedConfig, env) IN
       /\ cachedConfig' = r.cache
       /\ loadResult' = [ok |-> r.ok, config |-> r.config, error |-> r.error]
    /\ loads' = loads + 1
    /\ UNCHANGED <<env, openaiVars, regNoVars, parseVars, validationVars,
                   postVars, csvVars, pageVars>>

\* the environment is given another value for one of its variables
ChangeEnv ==
    /\ \E key \in DOMAIN EnvValues :
         \E value \in EnvValues[key] \ {env[key]} :
            env' = [env EXCEPT ![key] = value]
    /\ UNCHANGED <<cachedConfig, loadResult, loads, openaiVars, regNoVars,
                   parseVars, validationVars, postVars, csvVars, pageVars>>

clearEnvCache ==
    /\ cachedConfig' = NoConfig
    /\ UNCHANGED <<env, loadResult, loads, openaiVars, regNoVars, parseVars,
                   validationVars, postVars, csvVars, pageVars>>

InitEnv ==
    /\ env \in [MOCK_LLM : EnvValues.MOCK_LLM,
                 OPENAI_API_KEY : EnvValues.OPENAI_API_KEY,
                 RESEND_API_KEY : EnvValues.RESEND_API_KEY,
                 PRODUCT_CODE_REGEX : EnvValues.PRODUCT_CODE_REGEX,
                 MIN_CONFIDENCE : EnvValues.MIN_CONFIDENCE]
    /\ cachedConfig = NoConfig
    /\ loadResult = [ok |-> FALSE, config |-> NoConfig, error |-> ""]
    /\ loads = 0
    /\ config = DefaultConfig
    /\ OpenAIIdle /\ RegNoIdle /\ ParseIdle /\ ValidationIdle /\ PostIdle
    /\ CsvIdle /\ PageIdle

SpecEnv == InitEnv /\ [][LoadEnvConfig \/ ChangeEnv \/ clearEnvCache]_vars

\* ------------------------------------------------------------- upload page
\* readFileImmediately, called by handleFileSelect, handleCameraCapture and
\* handleDrop with the file chosen; the drop zone takes files while an
\* earlier one is loading
readFileImmediately ==
    /\ selections < MaxSelections
    /\ selections' = selections + 1
    /\ \E supported \in BOOLEAN :
         LET file == [id |-> selections + 1, supported |-> supported] IN
         /\ successResult' = FALSE
         /\ shrinkResult' = NoFile
         /\ cachedFileData' = NoFile
         /\ IF ~supported
            THEN /\ errorMessage' = "unsupported type"
                 /\ selectedFile' = NoFile
                 /\ isLoadingImage' = FALSE
                 /\ reads' = reads
            ELSE /\ errorMessage' = ""
                 /\ selectedFile' = file
                 /\ isLoadingImage' = TRUE
                 /\ reads' = reads \cup {file}
    /\ UNCHANGED <<shrinks, submitted, isProcessing,
                   openaiVars, regNoVars, parseVars, validationVars, postVars,
                   csvVars, envVars>>

\* reader.onload of a pending FileReader, and processFileFromMemory up to
\* its await (readAsArrayBuffer gives an ArrayBuffer; cachedFileData has
\* just been set)
ReaderLoad ==
    /\ \E file \in reads :
         /\ reads' = reads \ {file}
         /\ cachedFileData' = file
         /\ shrinks' = shrinks \cup {file}
    /\ UNCHANGED <<selectedFile, shrinkResult, isLoadingImage, selections,
                   submitted, isProcessing, errorMessage, successResult,
                   openaiVars, regNoVars, parseVars, validationVars, postVars,
                   csvVars, envVars>>

\* reader.onerror of a pending FileReader
ReaderError ==
    /\ \E file \in reads : reads' = reads \ {file}
    /\ errorMessage' = "unreadable"
    /\ selectedFile' = NoFile
    /\ isLoadingImage' = FALSE
    /\ UNCHANGED <<shrinkResult, cachedFileData, shrinks, selections, submitted,
                   isProcessing, successResult,
                   openaiVars, regNoVars, parseVars, validationVars, postVars,
                   csvVars, envVars>>

\* processFileFromMemory after its await: shrinkImageFromBuffer has resolved
\* with an image of the file it was given, or rejected
ShrinkSettled ==
    /\ \E file \in shrinks, resolved \in BOOLEAN :
         /\ shrinks' = shrinks \ {file}
         /\ IF resolved
            THEN /\ shrinkResult' = file
                 /\ UNCHANGED <<selectedFile, errorMessage>>
            ELSE /\ errorMessage' = "shrink failed"
                 /\ selectedFile' = NoFile
                 /\ shrinkResult' = NoFile
    /\ isLoadingImage' = FALSE
    /\ UNCHANGED <<cachedFileData, reads, selections, submitted, isProcessing,
                   successResult,
                   openaiVars, regNoVars, parseVars, validationVars, postVars,
                   csvVars, envVars>>

\* handleSubmit up to its fetch; the button is enabled when canSubmit holds
\* and no submit is in flight
handleSubmit ==
    /\ selectedFile # NoFile /\ shrinkResult # NoFile
    /\ ~isProcessing
    /\ isProcessing' = TRUE
    /\ errorMessage' = ""
    /\ successResult' = FALSE
    /\ submitted' = <<shrinkResult, selectedFile>>
    /\ UNCHANGED <<selectedFile, shrinkResult, isLoadingImage, cachedFileData,
                   reads, shrinks, selections,
                   openaiVars, regNoVars, parseVars, validationVars, postVars,
                   csvVars, envVars>>

\* handleSubmit after its fetch: a result, an error response, or a failure
SubmitSettled ==
    /\ isProcessing
    /\ isProcessing' = FALSE
    /\ \E outcome \in {"ok", "error", "threw"} :
         /\ successResult' = (outcome = "ok")
         /\ errorMessage' = IF outcome = "ok" THEN errorMessage ELSE outcome
    /\ UNCHANGED <<selectedFile, shrinkResult, isLoadingImage, cachedFileData,
                   reads, shrinks, selections, submitted,
                   openaiVars, regNoVars, parseVars, validationVars, postVars,
                   csvVars, envVars>>

\* reset, behind the button of the preview
reset ==
    /\ ~isLoadingImage /\ selectedFile # NoFile /\ shrinkResult # NoFile
    /\ selectedFile' = NoFile
    /\ shrinkResult' = NoFile
    /\ errorMessage' = ""
    /\ successResult' = FALSE
    /\ UNCHANGED <<isLoadingImage, cachedFileData, reads, shrinks, selections,
                   submitted, isProcessing,
                   openaiVars, regNoVars, parseVars, validationVars, postVars,
                   csvVars, envVars>>

InitPage ==
    /\ PageIdle
    /\ config = DefaultConfig
    /\ OpenAIIdle /\ RegNoIdle /\ ParseIdle /\ ValidationIdle /\ PostIdle
    /\ CsvIdle /\ EnvIdle

SpecPage ==
    InitPage /\ [][readFileImmediately \/ ReaderLoad \/ ReaderError
                     \/ ShrinkSettled \/ handleSubmit \/ SubmitSettled
                     \/ reset]_vars
\* ------------------------------------------------------------------ claims
\* The error classes as the claims word them.  A transient failure is a
\* provider error of status 429 or 5xx, or a network failure (an Error that
\* is no APIError and whose message names fetch); a model-not-found failure
\* is a provider error of status 404 or whose message says the model does
\* not exist or was not found.
TransientClass(e) ==
    \/ e.type = "APIError" /\ (e.status = 429 \/ e.status \in 500..599)
    \/ e.type = "Error" /\ "fetch" \in e.message

ModelNotFoundClass(e) ==
    /\ e.type = "APIError"
    /\ \/ e.status = 404
       \/ "does not exist" \in e.message
       \/ {"model", "not found"} \subseteq e.message

\* in this step a provider call of r failed (every failure carries the
\* number of the call that raised it, so raised[r] changes)
Failed(r) == raised'[r] # raised[r]

\* the failure of this step is handled by a model downgrade
Downgrading(r) ==
    ModelNotFoundClass(raised'[r]) /\ modelToUse[r] # LEGACY_FALLBACK

\* the bounds of the wait after the k-th provider call
MinWait(k) == 1000 * (2 ^ (k - 1))
MaxWait(k) == 1000 * (2 ^ (k - 1)) + 500

\* C1 (as claimed): a provider call that fails with an error that is neither
\* transient nor of the model-not-found class is not retried: no further
\* provider call is made and the invocation fails.
C1_OtherErrorNotRetried ==
    [][\A r \in Reqs :
          (Failed(r) /\ ~TransientClass(raised'[r])
                     /\ ~ModelNotFoundClass(raised'[r]))
          => (pc'[r] = "failed" /\ calls'[r] = calls[r])]_vars

\* C2: an invocation of extractWithOpenAI makes at most 3 provider calls,
\* the calls made after a model downgrade included.
C2_AtMostThreeCalls == \A r \in Reqs : calls[r] <= 3

\* C2 witness: an invocation that downgraded its model has made 3 calls and
\* failed.
C2_Witness ==
    \E r \in Reqs : pc[r] = "failed" /\ calls[r] = 3 /\ downgrades[r] >= 1

C4_ThrowsLastError ==
    \A r \in Reqs :
        (pc[r] = "failed" /\ calls[r] >= 1)
        => /\ result[r].error.at = calls[r]
           /\ result[r].error.status = raised[r].status
           /\ result[r].error.message = raised[r].message

\* C4 witness: an invocation failed at its third call, whose error differs
\* from what an earlier attempt could have left (it is a parse failure of
\* the third response).
C4_Witness ==
    \E r \in Reqs :
        /\ pc[r] = "failed" /\ calls[r] = 3
        /\ result[r].error = [ParseError EXCEPT !.at = 3]

\* C5 (as claimed): on whichever attempt a model-not-found error occurs while
\* the model in use is not the legacy model, the invocation does not fail on
\* it: the model is downgraded and another provider call is made with it.
C5_DowngradeAlwaysRetries ==
    [][\A r \in Reqs :
          (Failed(r) /\ Downgrading(r))
          => /\ pc'[r] = "calling"
             /\ calls'[r] = calls[r] + 1
             /\ modelToUse'[r] # modelToUse[r]
             /\ modelToUse'[r] \in {FALLBACK_MODEL, LEGACY_FALLBACK}]_vars

\* C6 (as claimed): a downgrade consumes no backoff: no wait precedes the
\* retry with the downgraded model, and the first transient failure of an
\* invocation whose earlier calls all ended in a downgrade waits the base
\* delay of 1000 ms plus jitter.
C6_DowngradeKeepsBackoffStep ==
    [][\A r \in Reqs :
          /\ (Failed(r) /\ Downgrading(r)) => pc'[r] # "waiting"
          /\ (Failed(r) /\ pc'[r] = "waiting" /\ downgrades[r] >= 1
                        /\ calls[r] = downgrades[r] + 1)
             => (delay'[r] >= 1000 /\ delay'[r] <= 1500)]_vars

\* in this step r enters getAvailableModel: extractWithOpenAI starts with a
\* key configured, or testOpenAIConnection has its own listing answered
Enters(r) ==
    \/ pc[r] = "idle" /\ kind'[r] = "extract" /\ pc'[r] # "failed"
    \/ /\ pc[r] = "testListing" /\ pc'[r] # "testListing"
       /\ ~(pc'[r] = "done" /\ ~result'[r].ok)

\* in this step the catalog query of r's getAvailableModel settles
Listed(r) == pc[r] = "listing" /\ pc'[r] # "listing"

\* what getAvailableModel hands back to r's caller in this step
Returned(r) == IF kind'[r] = "extract" THEN modelToUse'[r] ELSE result'[r].model

\* C7 (as claimed): without a call of clearOpenAICache the cached model
\* selection is assigned at most once: once set it never changes.
C7_AssignedAtMostOnce ==
    [][(clears' = clears /\ availableModel # NoModel)
       => availableModel' = availableModel]_vars

\* C7 (amended): without a call of clearOpenAICache the cached model
\* selection, once assigned, is never emptied, and a getAvailableModel call
\* that finds it assigned returns the cached value without writing it or
\* querying the catalog; it is assigned again only by a model-not-found
\* downgrade of extractWithOpenAI, which stores the downgraded model, or when
\* the catalog query of a getAvailableModel call that had found it empty
\* settles.
C7_CacheReassignedOnlyByDowngradeOrInit ==
    [][clears' = clears =>
          /\ availableModel # NoModel => availableModel' # NoModel
          /\ (availableModel # NoModel /\ availableModel' # availableModel)
             => \E r \in Reqs :
                   \/ /\ Failed(r) /\ Downgrading(r)
                      /\ modelToUse'[r] # modelToUse[r]
                      /\ availableModel' = modelToUse'[r]
                   \/ Listed(r)
          /\ \A r \in Reqs :
                (Enters(r) /\ availableModel # NoModel)
                => /\ Returned(r) = availableModel
                   /\ availableModel' = availableModel
                   /\ catalogQueries' = catalogQueries
                   /\ pc'[r] # "listing"]_vars

\* C7 witness: one invocation downgraded the configured model to the legacy
\* model, and an invocation begun afterwards was handed the legacy model
\* from the cache.
C7_Witness ==
    \E r, q \in Reqs :
        /\ r # q /\ clears = 0
        /\ config.OPENAI_MODEL = CustomModel
        /\ downgrades[r] = 1 /\ pc[r] \in {"done", "failed"}
        /\ availableModel = LEGACY_FALLBACK
        /\ pc[q] = "calling" /\ calls[q] = 1 /\ downgrades[q] = 0
        /\ modelToUse[q] = LEGACY_FALLBACK

\* C8 (as claimed): requests that race to initialise the cached model
\* selection leave in it the value any one of them would have written alone.
C8_RacingInitsConverge ==
    (/\ clears = 0
     /\ \A r \in Reqs : modelIds[r] # NoListing /\ downgrades[r] = 0)
    => \A r \in Reqs : availableModel = CatalogChoice(modelIds[r])

\* C9 (as claimed): without a cache clear getAvailableModel issues no more
\* than one catalog query in the process.
C9_OneCatalogQuery == clears = 0 => catalogQueries <= 1

\* the model the claim names for a catalog answer
ExpectedChoice(answer) ==
    IF answer.ok /\ PRIMARY_MODEL \in answer.ids THEN "gpt-5-mini-2025-08-07"
    ELSE IF answer.ok /\ FALLBACK_MODEL \in answer.ids THEN "gpt-5-mini"
    ELSE "gpt-4o-mini"

HasOverride == config.OPENAI_MODEL \notin {NoModel, PRIMARY_MODEL}

\* C10: with an empty cache getAvailableModel returns the configured override
\* if one is set and differs from the primary model, without querying the
\* catalog; otherwise it queries the catalog and returns the first of
\* [gpt-5-mini-2025-08-07, gpt-5-mini, gpt-4o-mini] the answer contains, and
\* gpt-4o-mini when it contains none or the query fails.  What it returns is
\* stored in the cache.
C10_SelectionOnEmptyCache ==
    [][\A r \in Reqs :
          /\ (Enters(r) /\ availableModel = NoModel /\ HasOverride)
             => /\ Returned(r) = config.OPENAI_MODEL
                /\ availableModel' = config.OPENAI_MODEL
                /\ catalogQueries' = catalogQueries
                /\ pc'[r] # "listing"
          /\ (Enters(r) /\ availableModel = NoModel /\ ~HasOverride)
             => /\ pc'[r] = "listing"
                /\ catalogQueries' = catalogQueries + 1
                /\ availableModel' = NoModel
          /\ Listed(r)
             => /\ modelIds'[r] \in CatalogAnswers
                /\ Returned(r) = ExpectedChoice(modelIds'[r])
                /\ availableModel' = ExpectedChoice(modelIds'[r])]_vars

\* C10 witness: the catalog lacked the primary model but listed the
\* secondary one, which was returned and cached.
C10_Witness ==
    \E r \in Reqs :
        /\ modelIds[r].ok
        /\ PRIMARY_MODEL \notin modelIds[r].ids
        /\ FALLBACK_MODEL \in modelIds[r].ids
        /\ pc[r] = "calling" /\ calls[r] = 1
        /\ modelToUse[r] = FALLBACK_MODEL
        /\ availableModel = FALLBACK_MODEL

\* ------------------------------------------------- claims on $lib/extract
\* how many digits a string holds
DigitCount(s) == Len(SelectSeq(s, IsDigit))

NoItems(r) == ~r.hasItems \/ Len(r.items) = 0
Settled == validation \notin {"none", "pending"}

\* C12: a result whose item list is empty is refused with extraction_failed,
\* never with low_confidence, whatever its confidence
C12_EmptyIsExtractionFailed ==
    Settled /\ NoItems(extractionIn) => validation = "extraction_failed"

C12_Witness ==
    /\ validation = "extraction_failed"
    /\ extractionIn.hasItems /\ extractionIn.items = <<>>
    /\ extractionIn.confidence = 0
    /\ extractionIn.confidence < config.MIN_CONFIDENCE

\* ---------------------------------------------------------------- C13
\* C13: a result with items is refused with low_confidence exactly when its
\* confidence is strictly below MIN_CONFIDENCE, and passes otherwise
C13_LowConfidenceIffBelow ==
    Settled /\ ~NoItems(extractionIn) =>
        /\ validation = "low_confidence"
              <=> extractionIn.confidence < config.MIN_CONFIDENCE
        /\ validation = "passed"
              <=> extractionIn.confidence >= config.MIN_CONFIDENCE

C13_Witness ==
    /\ validation = "passed"
    /\ extractionIn.items # <<>>
    /\ config.MIN_CONFIDENCE = DefaultMinConfidence
    /\ extractionIn.confidence = config.MIN_CONFIDENCE

\* ---------------------------------------------------------------- C15
\* C15: validation leaves a registration number whose digit count is not 10
\* as it was, character for character
C15_NonTenDigitsUnmodified ==
    validation = "passed" =>
        \A i \in 1..Len(extractionIn.items) :
            DigitCount(extractionIn.items[i].business_reg_no) # 10
            => extraction.items[i].business_reg_no
                 = extractionIn.items[i].business_reg_no

\* ---------------------------------------------------------------- C14
\* three digits, a hyphen, two digits, a hyphen, five digits
IsCanonicalRegNo(s) ==
    /\ Len(s) = 12
    /\ \A i \in 1..12 : IF i \in {4, 7} THEN s[i] = "-" ELSE s[i] \in Digits

\* C14: on a registration number of exactly 10 digits every application of
\* normalizeBusinessRegNo returns the 3-2-5 hyphenated form, and an
\* application to an already normalized value returns it unchanged
C14_TenDigitsIdempotent ==
    [][DigitCount(regNoIn) = 10 =>
          /\ IsCanonicalRegNo(regNo')
          /\ regNoRuns >= 1 => regNo' = regNo]_vars

C14_Witness ==
    /\ DigitCount(regNoIn) = 10
    /\ regNoIn # regNo
    /\ ~IsCanonicalRegNo(regNoIn)
    /\ regNoRuns = 2

\* ------------------------------------------- claims on parseExtractionResult
\* ---------------------------------------------------------------- C16
\* C16: the total_found of a parsed result is the source's total_found when
\* that is a number, and the number of parsed items in every other case
C16_TotalFoundDefaultsToCount ==
    \A f \in Forms :
        parsed[f].status = "returned" =>
            parsed[f].total_found =
                IF payload.total_found.t = "number"
                THEN payload.total_found
                ELSE Num(Len(parsed[f].items))

\* ---------------------------------------------------------------- C17
\* C17: a valid JSON object text wrapped in a fenced code block, with or
\* without the json tag, parses to what the text parses to unwrapped
C17_FencedParsesAlike ==
    IsJsonObject(text) =>
        \A f \in Forms :
            parsed["plain"].status # "none" /\ parsed[f].status # "none"
            => parsed[f] = parsed["plain"]

\* ---------------------------------------------------------------- C18
\* the JSON objects a text holds, as the places they start and end at
ObjectSpans(s) ==
    { span \in (1..Len(s)) \X (1..Len(s)) :
        /\ span[1] < span[2]
        /\ s[span[1]] = "{"
        /\ s[span[2]] = "}"
        /\ MembersOk(SubSeq(s, span[1] + 1, span[2] - 1), 1, FALSE) }

\* the value of the first of them
FirstObject(s) ==
    LET a == Least({ span[1] : span \in ObjectSpans(s) })
        b == Least({ span[2] : span \in { sp \in ObjectSpans(s) : sp[1] = a } })
    IN IF HasMembers(SubSeq(s, a + 1, b - 1), 1, FALSE) THEN payload ELSE NoPayload

IllFormed(v) ==
    \/ v.items.t # "array"
    \/ v.confidence.t # "number"
    \/ \E i \in 1..Len(v.items.elems) :
          \/ v.items.elems[i].product_code.t # "string"
          \/ v.items.elems[i].business_reg_no.t # "string"

\* C18: the parser throws exactly when the text holds no parseable JSON
\* object or the object's items is no array, its confidence no number, or
\* an item has no string product_code or business_reg_no
C18_ThrowsIffIllFormed ==
    \A f \in Forms :
        parsed[f].status # "none" =>
            LET given == Fenced(f, text) IN
            parsed[f].status = "threw"
               <=> (ObjectSpans(given) = {} \/ IllFormed(FirstObject(given)))

\* ------------------------------------------------- claims on POST /process
\* ---------------------------------------------------------------- C19
\* the elements of a productCode value, normalized
Elements(v) == [i \in 1..Len(split(v)) |-> normalizeProductCode(split(v)[i])]

\* what is wrong with a request, read off the request itself
WrongContentType(req) == req.contentType # Multipart
UnparseableForm(req) == ~req.formOk
BadProductCode(req) ==
    \/ req.productCode.t # "string"
    \/ \A i \in 1..Len(Elements(req.productCode.v)) :
          Elements(req.productCode.v)[i] = <<>>
    \/ \E i \in 1..Len(Elements(req.productCode.v)) :
          LET code == Elements(req.productCode.v)[i] IN
          code # <<>> /\ (Len(code) # 5 \/ \E k \in 1..Len(code) : code[k] \notin Digits)
BadFile(req) ==
    \/ req.image.t # "file"
    \/ req.image.size > 4500000
    \/ req.image.type \notin {"image/jpeg", "image/png", "image/webp", "image/gif"}
HasInputError(req) ==
    WrongContentType(req) \/ UnparseableForm(req) \/ BadProductCode(req) \/ BadFile(req)

InputErrorCodes ==
    {"invalid_content_type", "invalid_form_data", "missing_product_code",
     "invalid_product_code", "missing_file", "payload_too_large",
     "invalid_file_type"}

NoExternalCall ==
    /\ calls["r1"] = 0 /\ catalogQueries = 0 /\ pc["r1"] = "idle"
    /\ emailCalls = 0

\* C19: a request with an input error, once the configuration has loaded, is
\* answered with one of the input error codes; and every response with
\* such a code has a 4xx status and is given before any call of the model
\* provider or of the email collaborator
C19_InputErrorsAre4xxWithoutCalls ==
    ppc = "responded" =>
        /\ HasInputError(request) /\ response.error_code # "configuration_error"
              => response.error_code \in InputErrorCodes
        /\ response.error_code \in InputErrorCodes
              => response.status \in 400..499 /\ NoExternalCall

C19_Witness ==
    /\ ppc = "responded"
    /\ ~config.MOCK_LLM
    /\ response.error_code = "invalid_file_type"
    /\ response.status = 400
    /\ request.image.size = 1000
    /\ NoExternalCall

\* ---------------------------------------------------------------- C20
AllElementsEmpty(req) ==
    /\ req.productCode.t = "string"
    /\ \A i \in 1..Len(Elements(req.productCode.v)) :
          Elements(req.productCode.v)[i] = <<>>

\* the handler has come to the product-code checks of the request
CodeChecked ==
    /\ request.contentType = Multipart /\ request.formOk
    /\ ppc \notin {"received", "form"}
    /\ response.error_code # "configuration_error"

NeverAtModel == ppc = "responded" /\ calls["r1"] = 0 /\ pc["r1"] = "idle"

\* C20: a productCode value whose elements are all empty after
\* normalization (the empty string included) is rejected with
\* invalid_product_code and never reaches the model call
C20_AllEmptyIsInvalidCode ==
    CodeChecked /\ AllElementsEmpty(request) =>
        /\ response.error_code = "invalid_product_code"
        /\ response.status = 400
        /\ NeverAtModel

\* C20 as amended: a non-empty productCode value whose elements are all
\* empty after normalization is rejected with invalid_product_code, the
\* empty string with missing_product_code; neither reaches the model call
C20_AllEmptyIsRejected ==
    CodeChecked /\ AllElementsEmpty(request) =>
        /\ response.error_code =
              IF request.productCode.v = <<>>
              THEN "missing_product_code"
              ELSE "invalid_product_code"
        /\ response.status = 400
        /\ NeverAtModel

C20_Witness ==
    /\ CodeChecked /\ AllElementsEmpty(request)
    /\ Len(Elements(request.productCode.v)) = 2
    /\ Len(request.productCode.v) >= 3
    /\ request.image.t = "file" /\ request.image.type = "image/jpeg"
    /\ response.error_code = "invalid_product_code"


\* ---------------------------------------------------------------- C21
\* regex.test on an element, for the pattern the configuration holds
Matches(code) == validateProductCode(code, config.PRODUCT_CODE_REGEX)

\* the product-code checks have let the list of the request through
CodeAccepted ==
    /\ CodeChecked
    /\ response.error_code \notin {"missing_product_code", "invalid_product_code"}

\* some element of the list is not empty after normalization and does not
\* match the pattern
SomeInvalidCode(req) ==
    /\ req.productCode.t = "string"
    /\ \E i \in 1..Len(Elements(req.productCode.v)) :
          /\ Elements(req.productCode.v)[i] # <<>>
          /\ ~Matches(Elements(req.productCode.v)[i])

\* C21: a product-code list is accepted only if every element of the
\* comma-separated list, after normalization, matches the configured pattern
C21_AcceptedOnlyIfEveryElementMatches ==
    CodeAccepted =>
        \A i \in 1..Len(Elements(request.productCode.v)) :
            Matches(Elements(request.productCode.v)[i])

\* C21 as amended: a list is accepted only if every element that is not
\* empty after normalization matches the pattern; a list with an invalid
\* element is rejected whole with 400 and never reaches the model call, and
\* every code handed on is valid
C21_NoPartialAcceptance ==
    /\ CodeAccepted => ~SomeInvalidCode(request)
    /\ CodeChecked /\ SomeInvalidCode(request) =>
          /\ response.status = 400
          /\ response.error_code = "invalid_product_code"
          /\ productCodes = <<>>
          /\ NeverAtModel
    /\ \A i \in 1..Len(productCodes) : Matches(productCodes[i])

\* a list of one valid and one invalid code is rejected whole
C21_Witness ==
    /\ CodeChecked
    /\ SomeInvalidCode(request)
    /\ \E i \in 1..Len(Elements(request.productCode.v)) :
          Matches(Elements(request.productCode.v)[i])
    /\ request.image.t = "file" /\ request.image.type = "image/jpeg"
    /\ request.image.size = 1000
    /\ response.status = 400
    /\ response.error_code = "invalid_product_code"
    /\ NeverAtModel

C23_EmailNeverFailsRequest ==
    /\ ppc = "emailing" => emailCalls = 1 /\ emailResult = "none"
    /\ ppc = "responded" /\ validation = "passed" =>
          /\ response.status = 200
          /\ response.ok
          /\ response.items = extraction.items
          /\ emailResult \in {"sent", "not sent", "threw"}
          /\ response.emailed <=> emailResult = "sent"
          /\ emailCalls = 1

\* the send threw and the request is answered with 200 all the same
C23_Witness ==
    /\ ppc = "responded"
    /\ validation = "passed"
    /\ emailResult = "threw"
    /\ emailCalls = 1
    /\ response.status = 200 /\ response.ok /\ ~response.emailed
    /\ Len(response.items) = 2

\* ---------------------------------------------------------------- C24
\* the model call of the request has returned a result (the mock stands in
\* for it in mock mode)
ModelReturned == UsesMock(config) \/ pc["r1"] = "done"

NothingSent == exports = 0 /\ emailCalls = 0

Answered422(errorCode) ==
    /\ ppc = "responded"
    /\ response.status = 422
    /\ response.error_code = errorCode
    /\ NothingSent

\* C24: the export is built and sendResultEmail called only after the model
\* call returned and validateExtractionResult passed; a failed extraction
\* (retries exhausted, malformed provider response) and a failed validation
\* (no items, confidence under the minimum) are answered with 422 without
\* export or email, the two validation failures with codes of their own
C24_ExportAndEmailOnlyAfterValidation ==
    /\ exports > 0 \/ emailCalls > 0 =>
          /\ ModelReturned
          /\ validation = "passed"
          /\ ValidationError(extractionIn, config) = "none"
    /\ ppc = "responded" /\ pc["r1"] = "failed" => Answered422("extraction_error")
    /\ validation \notin {"none", "pending"} /\ NoItems(extractionIn) =>
          Answered422("extraction_failed")
    /\ /\ validation \notin {"none", "pending"}
       /\ ~NoItems(extractionIn)
       /\ extractionIn.confidence < config.MIN_CONFIDENCE
       => Answered422("low_confidence")

\* the provider's answer came back with a confidence under the minimum
C24_Witness ==
    /\ pc["r1"] = "done"
    /\ ~NoItems(extractionIn)
    /\ extractionIn.confidence < config.MIN_CONFIDENCE
    /\ Answered422("low_confidence")

\* ------------------------------------------------------ claims on generateCsv
\* ---------------------------------------------------------------- C25
\* a CSV text read back. A character is outside quotes when an even number
\* of quotes precedes it
Outside(t, i) == Cardinality({ j \in 1..(i - 1) : t[j] = "'" }) % 2 = 0

\* the characters of t at the positions of keep, in order
Pick(t, keep) ==
    LET at(k) == CHOOSE p \in keep : Cardinality({ q \in keep : q < p }) = k - 1
    IN [k \in 1..Cardinality(keep) |-> t[at(k)]]

\* t split at every sep outside quotes
Pieces(t, sep) ==
    LET cuts == { i \in 1..Len(t) : t[i] = sep /\ Outside(t, i) }
        n == Cardinality(cuts)
        cut(k) == IF k = 0 THEN 0
                  ELSE IF k = n + 1 THEN Len(t) + 1
                  ELSE CHOOSE p \in cuts : Cardinality({ q \in cuts : q < p }) = k - 1
    IN [k \in 1..(n + 1) |-> SubSeq(t, cut(k - 1) + 1, cut(k) - 1)]

\* a field without its enclosing quotes, its doubled quotes single: a quote
\* is kept when it opens a quoted part right after another has closed
Unquoted(f) ==
    Pick(f, { j \in 1..Len(f) :
                \/ f[j] # "'"
                \/ Outside(f, j) /\ j > 1 /\ f[j - 1] = "'" })

\* the records of a text, each the sequence of its fields; a line feed that
\* ends the text starts no record
ReadCsv(t) ==
    LET lines == Pieces(t, "nl")
        n == IF lines[Len(lines)] = <<>> THEN Len(lines) - 1 ELSE Len(lines)
    IN [r \in 1..n |->
          LET fields == Pieces(lines[r], ",") IN
          [k \in 1..Len(fields) |-> Unquoted(fields[k])]]

\* the records of the generated text after the header
DataRecords == Tail(ReadCsv(csv))

Generated == csv # <<>>

\* C25: the text generateCsv returns for a list of N items holds exactly N
\* data records after the header; the i-th has 6 fields, i in its sequence
\* column, and the digits of the i-th item's registration number
C25_OneRecordPerItemInOrder ==
    Generated =>
        /\ Len(DataRecords) = Len(csvItems)
        /\ \A i \in 1..Len(csvItems) :
              /\ Len(DataRecords[i]) = 6
              /\ DataRecords[i][1] = String(i)
              /\ DataRecords[i][5] =
                    extractDigitsOnly(csvItems[i].business_reg_no)
              /\ DataRecords[i][6] = csvItems[i].processed_at

\* two items with different registration numbers, exported
C25_Witness ==
    /\ Generated
    /\ Len(csvItems) = 2
    /\ csvItems[1].business_reg_no = DigitRun(10)
    /\ csvItems[2].business_reg_no = MockRegNoA
    /\ Len(DataRecords) = 2
    /\ DataRecords[2][1] = <<"2">>

\* ---------------------------------------------------------------- C26
\* C26: reading the text generateCsv returns back gives, for every item,
\* its company name and its registration number exactly, names holding
\* commas, quotes or line feeds included
C26_RoundTrip ==
    Generated =>
        /\ Len(DataRecords) = Len(csvItems)
        /\ \A i \in 1..Len(csvItems) :
              /\ DataRecords[i][3] = csvItems[i].company_name
              /\ DataRecords[i][4] = csvItems[i].business_reg_no

\* a name holding a quote, a comma and a line feed comes back as it was
C26_Witness ==
    /\ Generated
    /\ Len(csvItems) = 1
    /\ csvItems[1].company_name = <<"'", ",", "nl">>
    /\ DataRecords[1][3] = <<"'", ",", "nl">>

\* ---------------------------------------------------------------- C27
\* an environment loadEnvConfig accepts: the credentials present (the
\* OpenAI key may be missing in mock mode), a pattern that compiles, a
\* confidence unset or within 0..1
EnvLoadable(e) ==
    /\ e.RESEND_API_KEY # ""
    /\ e.OPENAI_API_KEY # "" \/ e.MOCK_LLM = "true"
    /\ e.PRODUCT_CODE_REGEX # "("
    /\ e.MIN_CONFIDENCE \in {"", "0.9"}

\* a step that is a call of loadEnvConfig
LoadStep == loads' = loads + 1

CacheKept ==
    LoadStep /\ cachedConfig # NoConfig =>
        /\ loadResult'.ok
        /\ loadResult'.config = cachedConfig
        /\ cachedConfig' = cachedConfig

FailureCachesNothing ==
    LoadStep /\ ~loadResult'.ok => cachedConfig' = NoConfig

EmptyCacheReadsEnv ==
    LoadStep /\ cachedConfig = NoConfig =>
        /\ loadResult'.ok <=> EnvLoadable(env)
        /\ loadResult'.ok =>
              /\ cachedConfig' = loadResult'.config
              /\ loadResult'.config.RESEND_API_KEY = env.RESEND_API_KEY
              /\ loadResult'.config.OPENAI_API_KEY = env.OPENAI_API_KEY
              /\ loadResult'.config.MOCK_LLM = (env.MOCK_LLM = "true")
              /\ env.PRODUCT_CODE_REGEX # "" =>
                    loadResult'.config.PRODUCT_CODE_REGEX = env.PRODUCT_CODE_REGEX
              /\ env.MIN_CONFIDENCE = "0.9" => loadResult'.config.MIN_CONFIDENCE = 90

OnlyClearEmpties ==
    ~LoadStep /\ cachedConfig' # cachedConfig => cachedConfig' = NoConfig

\* C27: a call of loadEnvConfig that finds the cache filled returns the
\* cached configuration whatever the environment holds by then, and no step
\* but clearEnvCache changes a filled cache; a call that fails leaves the
\* cache empty, and a call that finds it empty reads the environment
C27_CachedUntilCleared ==
    [][CacheKept /\ FailureCachesNothing /\ EmptyCacheReadsEnv /\ OnlyClearEmpties]_vars

\* the latest of several calls returned the cached configuration although
\* the environment no longer holds the credential it was loaded with
C27_Witness ==
    /\ loads = 3
    /\ loadResult.ok
    /\ cachedConfig = loadResult.config
    /\ cachedConfig.RESEND_API_KEY = "re_1"
    /\ env.RESEND_API_KEY = ""
    /\ env.MIN_CONFIDENCE = "abc"

\* ---------------------------------------------------------------- C28
\* the place of a model in modelPriority: 1 the primary, 3 the legacy one
Rank(m) == CHOOSE i \in 1..Len(modelPriority) : modelPriority[i] = m

\* a step that replaces a cached model of the priority list by one of
\* higher priority
CacheUpgraded ==
    /\ availableModel \in PriorityModels
    /\ availableModel' \in PriorityModels
    /\ Rank(availableModel') < Rank(availableModel)

\* the cache holds what a model-not-found downgrade wrote, and has not been
\* cleared
DowngradeCached ==
    /\ clears = 0
    /\ \E r \in Reqs : downgrades[r] > 0 /\ availableModel = modelToUse[r]

\* C28: over every interleaving of concurrent extractWithOpenAI calls, once
\* a model-not-found downgrade has written a lower model to the cached
\* selection, no later write replaces it by a model of higher priority
C28_CacheNeverUpgrades == [][DowngradeCached => ~CacheUpgraded]_vars

\* ---------------------------------------------------------------- C29
\* item b is item a with at most its business_reg_no rewritten, to the
\* normal form of a's
SameButRegNo(a, b) ==
    /\ [b EXCEPT !.business_reg_no = a.business_reg_no] = a
    /\ b.business_reg_no \in
          {a.business_reg_no, normalizeBusinessRegNo(a.business_reg_no)}

\* C29: validateExtractionResult changes the result only when it returns:
\* when it throws extraction_failed or low_confidence the result, every
\* business_reg_no included, is as it was given; when it returns, the items
\* are as many and in the order given and differ at most in business_reg_no
C29_MutatesOnlyOnSuccess ==
    /\ validation \in {"extraction_failed", "low_confidence"} =>
          extraction = extractionIn
    /\ validation = "passed" =>
          /\ [extraction EXCEPT !.items = extractionIn.items] = extractionIn
          /\ Len(extraction.items) = Len(extractionIn.items)
          /\ \A i \in 1..Len(extraction.items) :
                SameButRegNo(extractionIn.items[i], extraction.items[i])

\* a result refused for its confidence, holding a registration number that
\* normalization would have rewritten
C29_Witness ==
    /\ validation = "low_confidence"
    /\ Len(extraction.items) = 2
    /\ extraction.items[1].business_reg_no = DigitRun(10)
    /\ normalizeBusinessRegNo(DigitRun(10)) # DigitRun(10)
    /\ extraction = extractionIn

\* ---------------------------------------------------------------- C30
\* no FileReader and no shrinkImageFromBuffer is pending
Quiescent == reads = {} /\ shrinks = {}

\* C30: in the upload page, once every pending read and shrink has
\* completed, the image shown and submitted (shrinkResult) was shrunk from
\* the file selected last, which is selectedFile; and isLoadingImage is
\* false only when no read or shrink is pending
C30_ImageIsOfLatestSelection ==
    /\ Quiescent /\ shrinkResult # NoFile =>
          /\ shrinkResult = selectedFile
          /\ shrinkResult.id = selections
    /\ ~isLoadingImage => Quiescent
====
